---- MODULE Spec2Model ----
(***************************************************************************)
(* godsaeng-mate-mcp-server: the tool dispatch and protocol-adaptation     *)
(* layer.  Three tools (place search, calendar event, commitment message)  *)
(* are reachable through three dispatcher variants:                        *)
(*   "sdk"    the tool handlers registered with the protocol SDK           *)
(*            (src/tools/*.ts with src/services/*.ts),                     *)
(*   "api"    the serverless handler that validates with the schemas and   *)
(*            calls the services (unnamed/part_000),                       *)
(*   "inline" the self-contained serverless handler (unnamed/part_001).    *)
(* One tool call is a process: it runs synchronously up to each outbound   *)
(* HTTP request, waits for the provider's answer, and goes on.             *)
(*                                                                         *)
(* Strings are run-length sequences: a run [c |-> tag, n |-> length]       *)
(* stands for n characters that came from the source named by tag.         *)
(* Literal texts of the program are runs tagged with an ASCII name and     *)
(* their real length in UTF-16 code units.                                 *)
(***************************************************************************)
EXTENDS Integers, Sequences, FiniteSets, TLC

\* ------------------------------------------------------------------ bounds
\* largest number of documents a provider answer carries
MaxDocs == 2

\* ------------------------------------------------------- program constants
CHARACTER_LIMIT == 25000
TRUNCATE_MARGIN == 100
TEXT_TEMPLATE_MAX == 200
DEFAULT_REMINDER_MINUTES == 15
REMINDER_STEP == 5
DEFAULT_RADIUS == 500
DEFAULT_LIMIT == 5

\* ----------------------------------------------------------------- strings
Str(tag, n) == IF n = 0 THEN <<>> ELSE <<[c |-> tag, n |-> n]>>

RECURSIVE StrLen(_)
StrLen(s) == IF s = <<>> THEN 0 ELSE Head(s).n + StrLen(Tail(s))

\* String.prototype.substring(0, k) / slice(0, k) for k >= 0
RECURSIVE substring(_, _)
substring(s, k) ==
  IF s = <<>> \/ k <= 0 THEN <<>>
  ELSE IF Head(s).n <= k THEN <<Head(s)>> \o substring(Tail(s), k - Head(s).n)
  ELSE <<[c |-> Head(s).c, n |-> k]>>

\* JavaScript truthiness of a string value
Truthy(s) == s # <<>>

NL == Str("\\n", 1)
Digits(k) == IF k < 10 THEN 1 ELSE IF k < 100 THEN 2 ELSE IF k < 1000 THEN 3
             ELSE IF k < 10000 THEN 4 ELSE 5
\* `${number}`
NumStr(k) == Str(ToString(k), Digits(k))

RECURSIVE Join(_, _)
\* Array.prototype.join(sep)
Join(lines, sep) ==
  IF lines = <<>> THEN <<>>
  ELSE IF Len(lines) = 1 THEN Head(lines)
  ELSE Head(lines) \o sep \o Join(Tail(lines), sep)

\* ------------------------------------------------------- optional values
Some(v) == [present |-> TRUE, v |-> v]
NoStr == [present |-> FALSE, v |-> <<>>]
NoNum == [present |-> FALSE, v |-> 0]
NoEnum == [present |-> FALSE, v |-> ""]

\* x || d on an optional string, number, enum
OrStr(x, d) == IF x.present /\ Truthy(x.v) THEN x.v ELSE d
OrNum(x, d) == IF x.present /\ x.v # 0 THEN x.v ELSE d
OrEnum(x, d) == IF x.present /\ x.v # "" THEN x.v ELSE d
\* x ?? d on an optional number
NullishNum(x, d) == IF x.present THEN x.v ELSE d

\* ------------------------------------------------------------- tool names
SEARCH == "godsaeng_search_spot"
BLOCK == "godsaeng_block_session"
SEND == "godsaeng_send_commitment"
TOOLS == {SEARCH, BLOCK, SEND}
Variants == {"sdk", "api", "inline"}

\* --------------------------------------------------------------- schemas
PurposeSchema == {"study", "exercise", "reading", "work"}
ResponseFormatSchema == {"markdown", "json"}
CalendarColorSchema ==
  {"BLUE", "RED", "YELLOW", "GREEN", "PINK", "ORANGE", "PURPLE", "GRAY"}
MessageTemplateTypeSchema == {"feed", "text"}

\* z.string().min(lo).max(hi), required
StrIn(x, lo, hi) == x.present /\ StrLen(x.v) >= lo /\ StrLen(x.v) <= hi
\* z.string().max(hi).optional()
OptStrMax(x, hi) == x.present => StrLen(x.v) <= hi
\* z.number().int().min(lo).max(hi).default(..)
OptNumIn(x, lo, hi) == x.present => (x.v >= lo /\ x.v <= hi)
OptEnum(x, S) == x.present => x.v \in S

\* SearchSpotInputSchema.safeParse(args).success
SearchSpotInputSchema(a) ==
  /\ a.purpose.present /\ a.purpose.v \in PurposeSchema
  /\ OptStrMax(a.keyword, 100)
  /\ StrIn(a.location, 1, 100)
  /\ OptNumIn(a.radius, 100, 20000)
  /\ OptNumIn(a.limit, 1, 15)
  /\ OptEnum(a.response_format, ResponseFormatSchema)
  /\ ~a.extra

\* a parse that overwrites a supplied radius with the declared default
SearchSpotInput_resetRadius(a) ==
  [a EXCEPT !.radius = Some(DEFAULT_RADIUS),
            !.limit = Some(NullishNum(a.limit, DEFAULT_LIMIT)),
            !.response_format =
               Some(IF a.response_format.present THEN a.response_format.v
                    ELSE "markdown")]

\* the parsed data: declared defaults filled in
SearchSpotInput(a) ==
  [a EXCEPT !.radius = Some(NullishNum(a.radius, DEFAULT_RADIUS)),
            !.limit = Some(NullishNum(a.limit, DEFAULT_LIMIT)),
            !.response_format =
               Some(IF a.response_format.present THEN a.response_format.v
                    ELSE "markdown")]

\* BlockSessionInputSchema.safeParse(args).success
\* start_time is [matches |-> the regex accepts it, parses |-> Date accepts it,
\*                t, ms |-> epoch second and millisecond when it parses]
BlockSessionInputSchema(a) ==
  /\ StrIn(a.title, 1, 50)
  /\ OptStrMax(a.location_name, 100)
  /\ OptStrMax(a.location_address, 200)
  /\ a.start_time.matches
  /\ a.duration_minutes.present
  /\ a.duration_minutes.v >= 15 /\ a.duration_minutes.v <= 480
  /\ OptNumIn(a.reminder_minutes, 0, 1440)
  /\ OptEnum(a.color, CalendarColorSchema)
  /\ ~a.extra

BlockSessionInput(a) ==
  [a EXCEPT !.reminder_minutes =
               Some(NullishNum(a.reminder_minutes, DEFAULT_REMINDER_MINUTES)),
            !.color = Some(IF a.color.present THEN a.color.v ELSE "BLUE")]

\* SendCommitmentInputSchema.safeParse(args).success
\* location_url is [present, v |-> the string, url |-> it is a valid URL]
SendCommitmentInputSchema(a) ==
  /\ StrIn(a.goal, 1, 200)
  /\ OptStrMax(a.location_name, 100)
  /\ (a.location_url.present => a.location_url.url)
  /\ OptStrMax(a.encouragement, 100)
  /\ OptEnum(a.template_type, MessageTemplateTypeSchema)
  /\ ~a.extra

SendCommitmentInput(a) ==
  [a EXCEPT !.template_type =
               Some(IF a.template_type.present THEN a.template_type.v
                    ELSE "feed")]


\* ------------------------------------------------------------- constants
\* PURPOSE_CONFIG[purpose].defaultKeyword
defaultKeyword(p) ==
  CASE p = "study" -> Str("kw:study-cafe", 5)
    [] p = "exercise" -> Str("kw:gym", 3)
    [] p = "reading" -> Str("kw:book-cafe", 3)
    [] p = "work" -> Str("kw:coworking-space", 7)

\* PURPOSE_CONFIG[purpose].categoryCode ("none" stands for null)
categoryCode(p) ==
  CASE p = "study" -> "CE7"
    [] p = "exercise" -> "none"
    [] p = "reading" -> "CE7"
    [] p = "work" -> "none"

\* PURPOSE_LABELS[purpose]
PURPOSE_LABELS(p) == Str("label:" \o p, 2)

ENCOURAGEMENT_MESSAGES ==
  << Str("enc1", 13), Str("enc2", 17), Str("enc3", 12), Str("enc4", 19),
     Str("enc5", 12), Str("enc6", 8), Str("enc7", 16) >>

FALLBACK_URL == Str("https://playmcp.kakao.com", 25)
SPACE == Str(" ", 1)

\* ------------------------------------------------------------ the inputs
SearchArgs ==
  [ purpose : {Some(p) : p \in PurposeSchema \cup {"nap"}},
    keyword : {NoStr, Some(<<>>), Some(Str("kw", 2)), Some(Str("kw", 101))},
    location : {Some(Str("loc", 3)), Some(<<>>), Some(Str("loc", 101))},
    radius : {NoNum, Some(50), Some(1000)},
    limit : {NoNum, Some(3), Some(16)},
    response_format : {NoEnum, Some("json"), Some("markdown")},
    extra : BOOLEAN ]

\* start_time samples: "2026-01-15T19:00:00", "2026-13-45T99:00",
\* "2026-01-15T19:00:00.500" and "tomorrow"; t is the epoch second and ms the
\* millisecond fraction of the parsed Date
\* and "2026-01-15T19:00:00+09:00", nine hours earlier as an instant; offset
\* is the zone suffix the string carries
StartTimes ==
  { [matches |-> TRUE, parses |-> TRUE, t |-> 1768471200, ms |-> 0,
     offset |-> "none"],
    [matches |-> TRUE, parses |-> TRUE, t |-> 1768438800, ms |-> 0,
     offset |-> "+09:00"],
    [matches |-> TRUE, parses |-> FALSE, t |-> 0, ms |-> 0, offset |-> "none"],
    [matches |-> FALSE, parses |-> TRUE, t |-> 1768471200, ms |-> 500,
     offset |-> "none"],
    [matches |-> FALSE, parses |-> FALSE, t |-> 0, ms |-> 0, offset |-> "none"] }

BlockArgs ==
  [ title : {Some(Str("title", 5)), Some(<<>>), Some(Str("title", 51))},
    location_name : {NoStr, Some(<<>>), Some(Str("lname", 4))},
    location_address : {NoStr, Some(<<>>), Some(Str("laddr", 6))},
    start_time : StartTimes,
    duration_minutes : {Some(15), Some(480), Some(500)},
    reminder_minutes :
      {NoNum, Some(0), Some(2), Some(3), Some(7), Some(1440), Some(1441)},
    color : {NoEnum, Some("RED"), Some("TEAL")},
    extra : BOOLEAN ]

NoUrl == [present |-> FALSE, v |-> <<>>, url |-> FALSE]
SendArgs ==
  [ goal : {Some(Str("goal", k)) : k \in {0, 1, 85, 86, 200, 201}},
    location_name : {NoStr, Some(Str("lname", 4))},
    location_url :
      { NoUrl,
        [present |-> TRUE, v |-> Str("https://place.map.kakao.com/1", 29),
         url |-> TRUE],
        [present |-> TRUE, v |-> Str("not a url", 9), url |-> FALSE],
        [present |-> TRUE, v |-> <<>>, url |-> FALSE] },
    encouragement :
      {NoStr, Some(<<>>), Some(Str("cheer", 99)), Some(Str("cheer", 100)),
       Some(Str("cheer", 101))},
    template_type : {NoEnum, Some("feed"), Some("text"), Some("card")},
    extra : BOOLEAN ]

ArgsOf(name) ==
  CASE name = SEARCH -> SearchArgs
    [] name = BLOCK -> BlockArgs
    [] name = SEND -> SendArgs
    [] OTHER -> {[extra |-> FALSE]}

\* the process environment: KAKAO_ACCESS_TOKEN / KAKAO_REST_API_KEY set
Envs == [token : BOOLEAN, apiKey : BOOLEAN]

\* ------------------------------------------------- the provider's answers
Statuses == {200, 400, 401, 403, 429, 500}
Ok(ans) == ans.kind = "http" /\ ans.status >= 200 /\ ans.status < 300

\* coordinate documents of the two lookups
CoordDoc(src, i) == [x |-> src \o "-x" \o ToString(i),
                     y |-> src \o "-y" \o ToString(i)]
CoordDocs(src, k) == [i \in 1..k |-> CoordDoc(src, i)]

\* place documents: the first has a road address and no phone, the second a
\* phone and no road address; namelen is the length of the first one's name
PlaceDoc(i, namelen) ==
  [ place_name |-> Str("name" \o ToString(i), IF i = 1 THEN namelen ELSE 4),
    address_name |-> Str("addr" \o ToString(i), 10),
    road_address_name |-> IF i % 2 = 1 THEN Str("road" \o ToString(i), 12)
                          ELSE <<>>,
    phone |-> IF i % 2 = 0 THEN Str("phone" \o ToString(i), 11) ELSE <<>>,
    category_name |-> Str("cat" \o ToString(i), 8),
    distance |-> Str("dist" \o ToString(i), 3),
    place_url |-> Str("url" \o ToString(i), 30),
    x |-> "px" \o ToString(i), y |-> "py" \o ToString(i) ]
PlaceDocs(k, namelen) == [i \in 1..k |-> PlaceDoc(i, namelen)]

HttpAnswer(status, docs, msg) ==
  [kind |-> "http", status |-> status, docs |-> docs, msg |-> msg]
NetErr == [kind |-> "neterr", status |-> 0, docs |-> <<>>, msg |-> <<>>]
Timeout == [kind |-> "timeout", status |-> 0, docs |-> <<>>, msg |-> <<>>]

\* answers to a coordinate lookup from the source src
LookupAnswers(src) ==
  {HttpAnswer(200, CoordDocs(src, k), <<>>) : k \in 0..MaxDocs}
  \cup {HttpAnswer(s, <<>>, <<>>) : s \in Statuses \ {200}}
  \cup {NetErr, Timeout}

\* answers to a POST: a non-2xx body may carry a provider message (msg)
PostAnswers ==
  {HttpAnswer(s, <<>>, m) : s \in Statuses, m \in {<<>>, Str("provider-msg", 9)}}
  \cup {NetErr, Timeout}


\* answers to the calendar POST: the body of a 2xx answer carries the
\* identifier the provider issued for the event
CalendarAnswers ==
  {[kind |-> a.kind, status |-> a.status, docs |-> a.docs, msg |-> a.msg,
    event_id |-> IF Ok(a) THEN Str("event-id", 24) ELSE <<>>] : a \in PostAnswers}

\* ------------------------------------------------------------- envelopes
\* what a tool call hands to the transport: the rendered text and the
\* isError flag ("true", or "absent" when the object has no such key)
ToolResult(text, isError) == [text |-> text, isError |-> isError]
NoResult == ToolResult(<<>>, "none")

\* tools/call of the serverless handlers: result = {content: [{type, text}]}
toolsCall_api(text) == ToolResult(text, "absent")
toolsCall_inline(text) == ToolResult(text, "absent")

\* the position a call reached when it returned
Paths == {"unknown_tool", "validation", "no_credential", "adapter_error",
          "success"}

\* outcome of a synchronous stretch of a call: it returned, or it waits for
\* the answer to the request it issued
\* conf is what the adapter's success value left in the executor's output
\* record: the event identifier of the calendar, the success flag of the
\* message
NoConfirmation == [kind |-> "none", eventId |-> <<>>, success |-> FALSE]
Done(res, p) == [pc |-> "done", result |-> res, path |-> p, reqs |-> <<>>,
                 conf |-> NoConfirmation]
DoneWith(res, conf) == [Done(res, "success") EXCEPT !.conf = conf]
Wait(at, req) == [pc |-> at, result |-> NoResult, path |-> "none",
                  reqs |-> <<req>>, conf |-> NoConfirmation]

\* parsed.error.message / the message of a thrown ZodError (the issue list;
\* its length is not modelled)
ZodMessage == Str("zod:issues", 1)
\* message of the TypeError raised by reading a property of undefined
TypeErrorMessage == Str("TypeError:undefined", 1)

\* ------------------------------------------------------------ place search
AddressReq(location) == [kind |-> "address", query |-> location]
KeywordReq(location) == [kind |-> "keyword", query |-> location, size |-> 1]
SearchReq(query, c, radius, size, category) ==
  [kind |-> "search", query |-> query, x |-> c.x, y |-> c.y,
   radius |-> radius, size |-> size, sort |-> "distance",
   category |-> category]

NoCoords == [x |-> "", y |-> ""]
Found(c) == [tag |-> "coords", c |-> c, msg |-> <<>>]
Fallback == [tag |-> "fallback", c |-> NoCoords, msg |-> <<>>]
Null == [tag |-> "null", c |-> NoCoords, msg |-> <<>>]
Throw(msg) == [tag |-> "throw", c |-> NoCoords, msg |-> msg]

\* a lookup that falls back to the keyword lookup on a failed address lookup
getCoordinates_fallbackOnError(step, ans) ==
  IF Ok(ans) /\ Len(ans.docs) > 0
  THEN Found([x |-> ans.docs[1].x, y |-> ans.docs[1].y])
  ELSE IF step = "address" THEN Fallback ELSE Null

\* getCoordinates of the services: the answer to the address lookup
\* (step = "address") or to the keyword lookup (step = "keyword").  axios
\* rejects on a non-2xx status, a network error and a timeout; the catch
\* turns every rejection into null.
getCoordinates(step, ans) ==
  IF Ok(ans)
  THEN IF Len(ans.docs) > 0 THEN Found([x |-> ans.docs[1].x, y |-> ans.docs[1].y])
       ELSE IF step = "address" THEN Fallback ELSE Null
  ELSE Null

\* getCoordinates of the inline handler: fetch resolves on every status, and
\* the body of a non-2xx answer has no documents, so reading documents.length
\* throws; fetch rejects on a network error and on the abort at the timeout;
\* the catch turns every exception into null.
getCoordinates_inline(step, ans) ==
  IF ans.kind = "http" /\ Ok(ans)
  THEN IF Len(ans.docs) > 0 THEN Found([x |-> ans.docs[1].x, y |-> ans.docs[1].y])
       ELSE IF step = "address" THEN Fallback ELSE Null
  ELSE Null

\* error translation of the place-search adapter, messages of the services
AxiosMessage(ans) ==
  CASE ans.kind = "timeout" -> Str("timeout of 10000ms exceeded", 27)
    [] ans.kind = "neterr" -> Str("Network Error", 13)
    [] OTHER -> Str("Request failed with status code ", 32) \o NumStr(ans.status)

SearchError(ans) ==
  IF ans.kind = "http" /\ ans.status = 401
  THEN Str("msg:kakao-api-auth-failed-check-key", 33)
  ELSE IF ans.kind = "http" /\ ans.status = 429
  THEN Str("msg:api-rate-limit-exceeded", 29)
  ELSE Str("msg:place-search-failed: ", 10) \o AxiosMessage(ans)

NotFoundMessage(location) == Str("msg:location-not-found: ", 15) \o location

\* coordinateLookup, used by the api handler: address lookup first, keyword
\* lookup when it has no match, NotFound(location) when neither has one
coordinateLookup(step, ans, location) ==
  IF Ok(ans)
  THEN IF Len(ans.docs) > 0 THEN Found([x |-> ans.docs[1].x, y |-> ans.docs[1].y])
       ELSE IF step = "address" THEN Fallback
       ELSE Throw(NotFoundMessage(location))
  ELSE Throw(SearchError(ans))

\* PURPOSE_KEYWORDS[purpose] and PURPOSE_CATEGORY_MAP[purpose] of the api
\* handler
PURPOSE_KEYWORDS(p) == defaultKeyword(p)
PURPOSE_CATEGORY_MAP(p) == categoryCode(p)


\* ------------------------------------------------------------- rendering
\* JSON.stringify(value, null, 2); the white space of the pretty printing is
\* not modelled
JQuoted(v) == Str("\"", 1) \o v \o Str("\"", 1)
JField(key, val) == Str("\"" \o key \o "\":", Len(key) + 3) \o val
JObject(fields) == Str("{", 1) \o Join(fields, Str(",", 1)) \o Str("}", 1)
JArray(items) == Str("[", 1) \o Join(items, Str(",", 1)) \o Str("]", 1)

\* processPlace
processPlace(place) ==
  [ name |-> place.place_name,
    address |-> place.address_name,
    roadAddress |-> IF Truthy(place.road_address_name)
                    THEN place.road_address_name ELSE place.address_name,
    phone |-> IF Truthy(place.phone) THEN place.phone
              ELSE Str("no-information", 5),
    category |-> place.category_name,
    distance |-> IF Truthy(place.distance) THEN place.distance \o Str("m", 1)
                 ELSE Str("no-information", 5),
    mapUrl |-> place.place_url,
    coordinates |-> [latitude |-> place.y, longitude |-> place.x] ]

\* the markdown lines of one place in formatSearchSpotResult
PlaceLines(place, index) ==
  << Str("## ", 3) \o NumStr(index) \o Str(". ", 2) \o place.name,
     <<>>,
     Str("- **category**: ", 12) \o place.category,
     Str("- **address**: ", 10) \o place.roadAddress,
     Str("- **distance**: ", 10) \o place.distance,
     Str("- **phone**: ", 10) \o place.phone,
     Str("- **map**: [open in kakaomap](", 22) \o place.mapUrl \o Str(")", 1),
     <<>> >>

RECURSIVE AllPlaceLines(_, _)
AllPlaceLines(places, from) ==
  IF from > Len(places) THEN <<>>
  ELSE PlaceLines(places[from], from) \o AllPlaceLines(places, from + 1)

JsonPlace(place) ==
  JObject(<< JField("name", JQuoted(place.name)),
             JField("address", JQuoted(place.address)),
             JField("roadAddress", JQuoted(place.roadAddress)),
             JField("phone", JQuoted(place.phone)),
             JField("category", JQuoted(place.category)),
             JField("distance", JQuoted(place.distance)),
             JField("mapUrl", JQuoted(place.mapUrl)),
             JField("coordinates",
               JObject(<< JField("latitude", JQuoted(Str(place.coordinates.latitude, 1))),
                          JField("longitude", JQuoted(Str(place.coordinates.longitude, 1))) >>)) >>)

\* formatSearchSpotResult of the formatters: output is
\* [query, purpose, location, total, places]
formatSearchSpotResult(output, format) ==
  IF format = "json"
  THEN JObject(<< JField("query", JQuoted(output.query)),
                  JField("purpose", JQuoted(Str(output.purpose, Len(output.purpose)))),
                  JField("location", JQuoted(output.location)),
                  JField("total", NumStr(output.total)),
                  JField("places",
                    JArray([i \in 1..Len(output.places) |->
                              JsonPlace(output.places[i])])) >>)
  ELSE
    LET head == << Str("# ", 2) \o PURPOSE_LABELS(output.purpose)
                    \o Str(" place search result", 9),
                   <<>>,
                   Str("**query**: ", 9) \o output.query,
                   Str("**location**: ", 8) \o output.location,
                   Str("**results**: ", 11) \o NumStr(output.total) \o Str("count", 1),
                   <<>> >>
    IN IF Len(output.places) = 0
       THEN Join(head \o << Str("msg:no-results-try-again", 35) >>, NL)
       ELSE Join(head \o AllPlaceLines(output.places, 1)
                 \o << Str("---", 3), Str("*pick a place to schedule*", 26) >>,
                 NL)

\* truncateResponse of the inline handler
truncateResponse(content) ==
  IF StrLen(content) <= CHARACTER_LIMIT THEN content
  ELSE substring(content, CHARACTER_LIMIT - TRUNCATE_MARGIN)
       \o Str("\\n\\n... (response was cut)", 17)

\* one place of the inline markdown
InlinePlace(place, idx) ==
  Str("## ", 3) \o NumStr(idx) \o Str(". ", 2) \o place.place_name \o NL \o NL
  \o Str("- **category**: ", 12) \o place.category_name \o NL
  \o Str("- **address**: ", 10)
  \o (IF Truthy(place.road_address_name) THEN place.road_address_name
      ELSE place.address_name) \o NL
  \o Str("- **distance**: ", 10) \o place.distance \o Str("m", 1) \o NL
  \o (IF Truthy(place.phone)
      THEN Str("- **phone**: ", 10) \o place.phone \o NL ELSE <<>>)
  \o Str("- **map**: [open in kakaomap](", 22) \o place.place_url
  \o Str(")", 1) \o NL \o NL

RECURSIVE InlinePlaces(_, _)
InlinePlaces(places, from) ==
  IF from > Len(places) THEN <<>>
  ELSE InlinePlace(places[from], from) \o InlinePlaces(places, from + 1)

InlineJsonPlace(p) ==
  JObject(<< JField("name", JQuoted(p.place_name)),
             JField("address", JQuoted(IF Truthy(p.road_address_name)
                                       THEN p.road_address_name
                                       ELSE p.address_name)),
             JField("distance", JQuoted(p.distance)),
             JField("phone", JQuoted(p.phone)),
             JField("url", JQuoted(p.place_url)),
             JField("category", JQuoted(p.category_name)) >>)

\* the markdown of the inline executeSearchSpot before truncateResponse
InlineMarkdown(args, places) ==
  Str("# ", 2) \o PURPOSE_LABELS(args.purpose.v)
  \o Str(" place search result", 9) \o NL \o NL
  \o Str("**location**: ", 8) \o args.location.v \o NL
  \o Str("**results**: ", 11) \o NumStr(Len(places)) \o Str("count", 1)
  \o NL \o NL
  \o (IF Len(places) = 0 THEN Str("msg:no-results-try-again", 35) \o NL
      ELSE InlinePlaces(places, 1))

\* the rendering part of the inline executeSearchSpot
executeSearchSpot_render(args, places) ==
  IF OrEnum(args.response_format, "markdown") = "json"
  THEN JObject(<< JField("purpose", JQuoted(Str(args.purpose.v, Len(args.purpose.v)))),
                  JField("location", JQuoted(args.location.v)),
                  JField("count", NumStr(Len(places))),
                  JField("places",
                    JArray([i \in 1..Len(places) |-> InlineJsonPlace(places[i])])) >>)
  ELSE IF Len(places) = 0 THEN InlineMarkdown(args, places)
  ELSE truncateResponse(InlineMarkdown(args, places))


\* ---------------------------------------------------------- calendar event
\* Math.round(minutes / 5) * 5
roundToFiveMinutes(minutes) ==
  ((2 * minutes + REMINDER_STEP) \div (2 * REMINDER_STEP)) * REMINDER_STEP

\* a Date is [ok, t, ms]; new Date(string)
NewDate(st) == [ok |-> st.parses, t |-> st.t, ms |-> st.ms]
\* new Date(date.getTime() + minutes * 60 * 1000)
AddMinutes(d, minutes) == [d EXCEPT !.t = IF d.ok THEN d.t + minutes * 60 ELSE 0]
\* date.toISOString().replace(/\.\d{3}Z$/, "Z"): the UTC second, fraction cut
\* off; toISOString throws a RangeError on an invalid Date
\* a timestamp string is [utc |-> the UTC second it names, fraction |-> the
\* ".mmm" before the Z, if it has one]
toISOString(d) == [utc |-> d.t, fraction |-> Some(d.ms)]
IsoSeconds_keepFraction(d) == toISOString(d)
IsoSeconds(d) == [toISOString(d) EXCEPT !.fraction = NoNum]
\* new Date(the string IsoSeconds produced)
ParseIso(iso) ==
  [ok |-> TRUE, t |-> iso.utc,
   ms |-> IF iso.fraction.present THEN iso.fraction.v ELSE 0]
RangeErrorMessage == Str("Invalid time value", 18)

\* formatStartTime
formatStartTime(startTime) == IsoSeconds(NewDate(startTime))
\* calculateEndTime, given the formatted start
calculateEndTime(formattedStart, durationMinutes) ==
  IsoSeconds(AddMinutes(ParseIso(formattedStart), durationMinutes))

NoLocation == [present |-> FALSE, name |-> <<>>, address |-> NoStr]
NoReminders == [present |-> FALSE, v |-> <<>>]
CalendarDescription(title) ==
  Str("registered-by-godsaeng-mate\\n\\ngoal: ", 24) \o title

\* the event object built by createCalendarEvent; options are the optional
\* values locationName, locationAddress, reminderMinutes, color, description
\* the event with the location attached as soon as a name or an address
\* came with the call
CalendarEvent_anyLocation(title, startTime, durationMinutes, options) ==
  LET formattedStartTime == formatStartTime(startTime)
      reminderMinutes ==
        roundToFiveMinutes(NullishNum(options.reminderMinutes,
                                      DEFAULT_REMINDER_MINUTES))
  IN [ title |-> title,
       time |-> [ start_at |-> formattedStartTime,
                  end_at |-> calculateEndTime(formattedStartTime, durationMinutes),
                  time_zone |-> "Asia/Seoul",
                  all_day |-> FALSE ],
       color |-> OrEnum(options.color, "BLUE"),
       location |->
         IF options.locationName.present \/ options.locationAddress.present
         THEN [ present |-> TRUE, name |-> options.locationName.v,
                address |-> options.locationAddress ]
         ELSE NoLocation,
       description |->
         IF options.description.present /\ Truthy(options.description.v)
         THEN options.description ELSE NoStr,
       reminders |->
         IF reminderMinutes > 0
         THEN [present |-> TRUE, v |-> <<reminderMinutes>>]
         ELSE NoReminders ]

CalendarEvent(title, startTime, durationMinutes, options) ==
  LET formattedStartTime == formatStartTime(startTime)
      reminderMinutes ==
        roundToFiveMinutes(NullishNum(options.reminderMinutes,
                                      DEFAULT_REMINDER_MINUTES))
  IN [ title |-> title,
       time |-> [ start_at |-> formattedStartTime,
                  end_at |-> calculateEndTime(formattedStartTime, durationMinutes),
                  time_zone |-> "Asia/Seoul",
                  all_day |-> FALSE ],
       color |-> OrEnum(options.color, "BLUE"),
       location |->
         IF options.locationName.present /\ Truthy(options.locationName.v)
         THEN [ present |-> TRUE, name |-> options.locationName.v,
                address |->
                  IF options.locationAddress.present
                     /\ Truthy(options.locationAddress.v)
                  THEN options.locationAddress ELSE NoStr ]
         ELSE NoLocation,
       description |->
         IF options.description.present /\ Truthy(options.description.v)
         THEN options.description ELSE NoStr,
       reminders |->
         IF reminderMinutes > 0
         THEN [present |-> TRUE, v |-> <<reminderMinutes>>]
         ELSE NoReminders ]

CalendarReq(event) == [kind |-> "calendar", event |-> event]

\* createCalendarEvent without the throw of toISOString on an invalid date
createCalendarEvent_invalidDateSubmitted(accessToken, title, startTime, durationMinutes, options) ==
  IF ~accessToken THEN Throw(Str("msg:access-token-needed", 47))
  ELSE [tag |-> "request", c |-> NoCoords, msg |-> <<>>,
        req |-> CalendarReq(CalendarEvent(title, startTime, durationMinutes,
                                          options))]

\* createCalendarEvent up to its request: the token check, the event, the
\* POST; a start_time that Date cannot parse makes toISOString throw
createCalendarEvent(accessToken, title, startTime, durationMinutes, options) ==
  IF ~accessToken THEN Throw(Str("msg:access-token-needed", 47))
  ELSE IF ~startTime.parses THEN Throw(RangeErrorMessage)
  ELSE [tag |-> "request", c |-> NoCoords, msg |-> <<>>,
        req |-> CalendarReq(CalendarEvent(title, startTime, durationMinutes,
                                          options))]

\* the catch of createCalendarEvent: the message of the error it throws
CalendarError(ans) ==
  IF ans.kind = "http" /\ ans.status = 401
  THEN Str("msg:kakao-auth-expired-login-again", 28)
  ELSE IF ans.kind = "http" /\ ans.status = 403
  THEN Str("msg:no-talk_calendar-scope", 50)
  ELSE IF ans.kind = "http" /\ ans.status = 400
  THEN Str("msg:event-create-failed: ", 10)
       \o (IF Truthy(ans.msg) THEN ans.msg ELSE Str("msg:bad-request", 10))
  ELSE Str("msg:event-create-failed: ", 10) \o AxiosMessage(ans)

\* formatDateTime: "YYYY-MM-DD HH:mm" of the date in the process' zone
formatDateTime(d) == Str("local-minute:" \o ToString(d.t \div 60), 16)

\* formatBlockSessionResult(output, "markdown")
formatBlockSessionResult(output) ==
  IF output.success
  THEN Join(<< Str("# event registered", 10),
               <<>>,
               Str("**title**: ", 8) \o output.title,
               Str("**start**: ", 8) \o output.startTime,
               Str("**end**: ", 8) \o output.endTime >>
            \o (IF output.location.present /\ Truthy(output.location.v)
                THEN << Str("**place**: ", 8) \o output.location.v >>
                ELSE <<>>)
            \o << Str("**reminder**: ", 8) \o NumStr(output.reminder)
                  \o Str(" minutes before", 3),
                  <<>>,
                  Str("msg:event-registered-in-talk-calendar", 18) >>, NL)
  ELSE Join(<< Str("# event registration failed", 10), <<>>, output.message >>,
            NL)

BlockFailure(message) ==
  [success |-> FALSE, eventId |-> <<>>, title |-> <<>>, startTime |-> <<>>, endTime |-> <<>>,
   location |-> NoStr, reminder |-> 0, message |-> message]

\* what an output record of the block-session executors keeps of the
\* adapter's return value
CalendarConfirmation(output) ==
  [kind |-> "calendar", eventId |-> output.eventId, success |-> output.success]

\* the success output built by the sdk and api block-session executors from
\* the adapter's return value result (the body of the provider's answer)
BlockSessionOutput(input, result) ==
  LET startDate == NewDate(input.start_time)
      endDate == AddMinutes(startDate, input.duration_minutes.v)
  IN [success |-> TRUE, eventId |-> result.event_id, title |-> input.title.v,
      startTime |-> formatDateTime(NewDate(input.start_time)),
      endTime |-> formatDateTime(ParseIso(IsoSeconds(endDate))),
      location |-> input.location_name,
      reminder |-> input.reminder_minutes.v,
      message |-> Str("msg:event-registered-in-talk-calendar", 18)]

BlockOptions(input) ==
  [locationName |-> input.location_name,
   locationAddress |-> input.location_address,
   reminderMinutes |-> input.reminder_minutes,
   color |-> input.color,
   description |-> Some(CalendarDescription(input.title.v))]


\* messages of what fetch throws in the inline handler
FetchMessage(ans) ==
  IF ans.kind = "timeout" THEN Str("This operation was aborted", 26)
  ELSE Str("fetch failed", 12)

\* the event object built by the inline executeBlockSession
InlineCalendarEvent(args) ==
  LET startDate == NewDate(args.start_time)
      endDate == AddMinutes(startDate, args.duration_minutes.v)
      reminderMinutes ==
        roundToFiveMinutes(OrNum(args.reminder_minutes, 15))
  IN [ title |-> args.title.v,
       time |-> [ start_at |-> IsoSeconds(startDate),
                  end_at |-> IsoSeconds(endDate),
                  time_zone |-> "Asia/Seoul",
                  all_day |-> FALSE ],
       color |-> OrEnum(args.color, "BLUE"),
       location |->
         IF args.location_name.present /\ Truthy(args.location_name.v)
         THEN [ present |-> TRUE, name |-> args.location_name.v,
                address |->
                  IF args.location_address.present
                     /\ Truthy(args.location_address.v)
                  THEN args.location_address ELSE NoStr ]
         ELSE NoLocation,
       description |-> Some(CalendarDescription(args.title.v)),
       reminders |->
         IF reminderMinutes > 0
         THEN [present |-> TRUE, v |-> <<reminderMinutes>>]
         ELSE NoReminders ]

\* the inline executeBlockSession after its POST was answered
executeBlockSession_answer(args, ans) ==
  IF ans.kind # "http" THEN Throw(FetchMessage(ans))
  ELSE IF ~Ok(ans)
  THEN IF ans.status = 401 THEN Throw(Str("msg:kakao-auth-expired", 16))
       ELSE IF ans.status = 403 THEN Throw(Str("msg:talk-calendar-scope-needed", 15))
       ELSE Throw(Str("msg:event-create-failed: ", 10) \o NumStr(ans.status))
  ELSE LET startDate == NewDate(args.start_time)
           endDate == AddMinutes(startDate, args.duration_minutes.v)
           reminderMinutes ==
             roundToFiveMinutes(OrNum(args.reminder_minutes, 15))
       IN [tag |-> "text", c |-> NoCoords,
           msg |->
             Str("# event registered", 10) \o NL \o NL
             \o Str("**title**: ", 8) \o args.title.v \o NL
             \o Str("**start**: ", 8) \o formatDateTime(startDate) \o NL
             \o Str("**end**: ", 8) \o formatDateTime(endDate) \o NL
             \o (IF args.location_name.present /\ Truthy(args.location_name.v)
                 THEN Str("**place**: ", 8) \o args.location_name.v \o NL
                 ELSE <<>>)
             \o Str("**reminder**: ", 8) \o NumStr(reminderMinutes)
             \o Str(" minutes before", 3) \o NL \o NL
             \o Str("msg:event-registered-in-talk-calendar", 18) \o NL]

\* ------------------------------------------------------ commitment message
\* a link that ignores the caller's URL
Link_fallbackOnly(locationUrl) ==
  [web_url |-> FALLBACK_URL, mobile_web_url |-> FALLBACK_URL]

Link(locationUrl) ==
  LET u == OrStr(locationUrl, FALLBACK_URL)
  IN [web_url |-> u, mobile_web_url |-> u]

NoButtons == [present |-> FALSE, v |-> <<>>]

\* createFeedTemplate
createFeedTemplate(goal, encouragement, locationName, locationUrl) ==
  [ object_type |-> "feed",
    content |->
      [ title |-> Str("todays-godsaeng-goal", 9),
        description |->
          IF locationName.present /\ Truthy(locationName.v)
          THEN goal \o NL \o NL \o Str("place: ", 4) \o locationName.v
               \o NL \o NL \o encouragement
          ELSE goal \o NL \o NL \o encouragement,
        link |-> Link(locationUrl) ],
    buttons |->
      IF locationUrl.present /\ Truthy(locationUrl.v)
      THEN [present |-> TRUE,
            v |-> << [title |-> Str("view-map", 5),
                      link |-> [web_url |-> locationUrl.v,
                                mobile_web_url |-> locationUrl.v]] >>]
      ELSE NoButtons ]

\* a text template whose text is not cut
createTextTemplate_uncut(goal, encouragement, locationUrl) ==
  [ object_type |-> "text",
    text |-> Str("[todays-godsaeng-goal]", 11) \o NL \o NL \o goal
             \o NL \o NL \o encouragement,
    link |-> Link(locationUrl) ]

\* createTextTemplate
createTextTemplate(goal, encouragement, locationUrl) ==
  LET text == Str("[todays-godsaeng-goal]", 11) \o NL \o NL \o goal
              \o NL \o NL \o encouragement
  IN [ object_type |-> "text",
       text |-> substring(text, TEXT_TEMPLATE_MAX),
       link |-> Link(locationUrl) ]

MessageReq(template) == [kind |-> "message", template |-> template]

\* sendCommitmentCard up to its request; options are locationName,
\* locationUrl, encouragement, templateType; pick is the index
\* getRandomEncouragement draws
sendCommitmentCard(accessToken, goal, options, pick) ==
  IF ~accessToken THEN Throw(Str("msg:access-token-needed", 47))
  ELSE LET encouragement ==
             OrStr(options.encouragement, ENCOURAGEMENT_MESSAGES[pick])
           templateType == OrEnum(options.templateType, "feed")
       IN [tag |-> "request", c |-> NoCoords, msg |-> <<>>,
           req |-> MessageReq(
             IF templateType = "feed"
             THEN createFeedTemplate(goal, encouragement,
                                     options.locationName, options.locationUrl)
             ELSE createTextTemplate(goal, encouragement, options.locationUrl))]

\* the catch of sendCommitmentCard
\* a translation that reports every failed send as the generic failure
MessageError_generic(ans) ==
  Str("msg:message-send-failed: ", 11) \o AxiosMessage(ans)

MessageError(ans) ==
  IF ans.kind = "http" /\ ans.status = 401
  THEN Str("msg:kakao-auth-expired-login-again", 28)
  ELSE IF ans.kind = "http" /\ ans.status = 403
  THEN Str("msg:no-talk_message-scope", 51)
  ELSE Str("msg:message-send-failed: ", 11) \o AxiosMessage(ans)

\* formatSendCommitmentResult(output, "markdown")
formatSendCommitmentResult(output) ==
  IF output.success
  THEN Join(<< Str("# commitment card sent", 13),
               <<>>,
               Str("**todays goal**: ", 12) \o output.goal >>
            \o (IF output.location.present /\ Truthy(output.location.v)
                THEN << Str("**place**: ", 8) \o output.location.v >>
                ELSE <<>>)
            \o << Str("**cheer**: ", 12) \o output.encouragement,
                  <<>>,
                  output.message,
                  <<>>,
                  Str("*check your kakaotalk chat*", 24) >>, NL)
  ELSE Join(<< Str("# commitment card failed", 13), <<>>, output.message >>, NL)

SendFailure(message) ==
  [success |-> FALSE, goal |-> <<>>, location |-> NoStr,
   encouragement |-> <<>>, message |-> message]

SendOptions(input, encouragement) ==
  [locationName |-> input.location_name,
   locationUrl |-> input.location_url,
   encouragement |-> Some(encouragement),
   templateType |-> input.template_type]

\* the template built by the inline executeSendCommitment
InlineTemplate(args, encouragement) ==
  IF OrEnum(args.template_type, "feed") = "feed"
  THEN [ object_type |-> "feed",
         content |->
           [ title |-> Str("todays-godsaeng-goal", 9),
             description |->
               IF args.location_name.present /\ Truthy(args.location_name.v)
               THEN args.goal.v \o NL \o NL \o Str("place: ", 4)
                    \o args.location_name.v \o NL \o NL \o encouragement
               ELSE args.goal.v \o NL \o NL \o encouragement,
             link |-> Link(args.location_url) ],
         buttons |->
           IF args.location_url.present /\ Truthy(args.location_url.v)
           THEN [present |-> TRUE,
                 v |-> << [title |-> Str("view-map", 5),
                           link |-> [web_url |-> args.location_url.v,
                                     mobile_web_url |-> args.location_url.v]] >>]
           ELSE NoButtons ]
  ELSE [ object_type |-> "text",
         text |-> substring(Str("[todays-godsaeng-goal]", 11) \o NL \o NL
                            \o args.goal.v \o NL \o NL \o encouragement,
                            TEXT_TEMPLATE_MAX),
         link |-> Link(args.location_url) ]

\* the inline executeSendCommitment after its POST was answered
executeSendCommitment_answer(args, encouragement, ans) ==
  IF ans.kind # "http" THEN Throw(FetchMessage(ans))
  ELSE IF ~Ok(ans)
  THEN IF ans.status = 401 THEN Throw(Str("msg:kakao-auth-expired", 16))
       ELSE IF ans.status = 403 THEN Throw(Str("msg:message-scope-needed", 17))
       ELSE Throw(Str("msg:message-send-failed: ", 11) \o NumStr(ans.status))
  ELSE [tag |-> "text", c |-> NoCoords,
        msg |->
          Str("# commitment card sent", 13) \o NL \o NL
          \o Str("**todays goal**: ", 12) \o args.goal.v \o NL
          \o (IF args.location_name.present /\ Truthy(args.location_name.v)
              THEN Str("**place**: ", 8) \o args.location_name.v \o NL
              ELSE <<>>)
          \o Str("**cheer**: ", 12) \o encouragement \o NL \o NL
          \o Str("*check your kakaotalk chat*", 24) \o NL]


\* ------------------------------------------------- the sdk tool handlers
\* the catch blocks of the three registered handlers
searchSpot_catch(message) == ToolResult(Str("error: ", 4) \o message, "true")
blockSession_catch(message) ==
  ToolResult(formatBlockSessionResult(BlockFailure(message)), "true")
sendCommitment_catch(message) ==
  ToolResult(formatSendCommitmentResult(SendFailure(message)), "true")

LoginRequired_sdk == Str("msg:error-kakao-login-required", 47)

\* searchPlaces of the services, up to the address lookup of getCoordinates
searchPlaces_begin(input, e) ==
  IF ~e.apiKey THEN Throw(Str("KAKAO_REST_API_KEY is not configured", 36))
  ELSE [tag |-> "request", c |-> NoCoords, msg |-> <<>>,
        req |-> AddressReq(input.location.v)]

\* searchPlaces of the services, from the coordinates to the search request
searchPlaces_query(input, coords) ==
  LET searchKeyword == OrStr(input.keyword, defaultKeyword(input.purpose.v))
      fullQuery == input.location.v \o SPACE \o searchKeyword
  IN SearchReq(fullQuery, coords, input.radius.v, input.limit.v,
               categoryCode(input.purpose.v))

\* the handler registered by registerSearchSpotTool, up to its first await
registerSearchSpotTool(params, e) ==
  IF ~SearchSpotInputSchema(params)
  THEN Done(searchSpot_catch(ZodMessage), "validation")
  ELSE LET r == searchPlaces_begin(SearchSpotInput(params), e)
       IN IF r.tag = "throw" THEN Done(searchSpot_catch(r.msg), "adapter_error")
          ELSE Wait("await_address", r.req)

\* the handler registered by registerBlockSessionTool, up to its await
registerBlockSessionTool(params, e) ==
  IF ~BlockSessionInputSchema(params)
  THEN Done(blockSession_catch(ZodMessage), "validation")
  ELSE IF ~e.token
  THEN Done(ToolResult(LoginRequired_sdk, "true"), "no_credential")
  ELSE LET input == BlockSessionInput(params)
           r == createCalendarEvent(e.token, input.title.v, input.start_time,
                                    input.duration_minutes.v, BlockOptions(input))
       IN IF r.tag = "throw" THEN Done(blockSession_catch(r.msg), "adapter_error")
          ELSE Wait("await_calendar", r.req)

\* the handler registered by registerSendCommitmentTool, up to its await
registerSendCommitmentTool(params, e, pick) ==
  IF ~SendCommitmentInputSchema(params)
  THEN Done(sendCommitment_catch(ZodMessage), "validation")
  ELSE IF ~e.token
  THEN Done(ToolResult(LoginRequired_sdk, "true"), "no_credential")
  ELSE LET input == SendCommitmentInput(params)
           encouragement ==
             OrStr(input.encouragement, ENCOURAGEMENT_MESSAGES[pick])
           r == sendCommitmentCard(e.token, input.goal.v,
                                   SendOptions(input, encouragement), pick)
       IN IF r.tag = "throw" THEN Done(sendCommitment_catch(r.msg), "adapter_error")
          ELSE Wait("await_message", r.req)

\* searchProductivitySpots and the output the search handler formats
\* an output record that lists the places last to first
SearchSpotOutput_reversed(input, query, docs) ==
  [query |-> query, purpose |-> input.purpose.v, location |-> input.location.v,
   total |-> Len(docs),
   places |-> [i \in 1..Len(docs) |-> processPlace(docs[Len(docs) + 1 - i])]]

SearchSpotOutput(input, query, docs) ==
  [query |-> query, purpose |-> input.purpose.v, location |-> input.location.v,
   total |-> Len(docs), places |-> [i \in 1..Len(docs) |-> processPlace(docs[i])]]

\* the search handler after the search request was answered
searchSpot_answer(input, query, ans) ==
  IF Ok(ans)
  THEN Done(ToolResult(formatSearchSpotResult(
                         SearchSpotOutput(input, query, ans.docs),
                         input.response_format.v), "absent"), "success")
  ELSE Done(searchSpot_catch(SearchError(ans)), "adapter_error")

\* the block-session handler after the POST was answered
blockSession_answer(input, ans) ==
  IF Ok(ans)
  THEN LET output == BlockSessionOutput(input, ans)
       IN DoneWith(ToolResult(formatBlockSessionResult(output), "absent"),
                   CalendarConfirmation(output))
  ELSE Done(blockSession_catch(CalendarError(ans)), "adapter_error")

MessageConfirmation(output) ==
  [kind |-> "message", eventId |-> <<>>, success |-> output.success]

SendCommitmentOutput(input, encouragement) ==
  [success |-> TRUE, goal |-> input.goal.v, location |-> input.location_name,
   encouragement |-> encouragement,
   message |-> Str("msg:card-sent-to-my-chat", 31)]

\* the send-commitment handler after the POST was answered
sendCommitment_answer(input, encouragement, ans) ==
  IF Ok(ans)
  THEN LET output == SendCommitmentOutput(input, encouragement)
       IN DoneWith(ToolResult(formatSendCommitmentResult(output), "absent"),
                   MessageConfirmation(output))
  ELSE Done(sendCommitment_catch(MessageError(ans)), "adapter_error")


\* -------------------------------------------- the api handler (part_000)
ToolName(name) == Str(name, Len(name))
InputError == Str("X input error: ", 9)
UnknownTool == Str("X unknown tool: ", 13)
SearchFailed == Str("X place search failed: ", 12)
BlockFailed == Str("X event registration failed: ", 12)
SendFailed == Str("X message send failed: ", 13)

\* executeSearchSpot of the api handler, from the coordinates to the request
executeSearchSpot_api_query(args, coords) ==
  LET purposeKeyword == PURPOSE_KEYWORDS(args.purpose.v)
      searchQuery == IF args.keyword.present /\ Truthy(args.keyword.v)
                     THEN args.keyword.v \o SPACE \o purposeKeyword
                     ELSE purposeKeyword
  IN SearchReq(searchQuery, coords, OrNum(args.radius, 500),
               OrNum(args.limit, 5), PURPOSE_CATEGORY_MAP(args.purpose.v))

\* the truncation of a long markdown render: cut to the ceiling minus the
\* notice length, notice appended
truncateMarkdown(content) ==
  LET notice == Str("\\n\\n... (response was cut)", 17)
  IN IF StrLen(content) <= CHARACTER_LIMIT THEN content
     ELSE substring(content, CHARACTER_LIMIT - StrLen(notice)) \o notice

\* formatSearchSpotResult as the api handler imports it
formatSearchSpotResult_api(args, places, format) ==
  IF format = "json"
  THEN JObject(<< JField("purpose", JQuoted(Str(args.purpose.v, Len(args.purpose.v)))),
                  JField("location", JQuoted(args.location.v)),
                  JField("count", NumStr(Len(places))),
                  JField("places",
                    JArray([i \in 1..Len(places) |-> InlineJsonPlace(places[i])])) >>)
  ELSE truncateMarkdown(InlineMarkdown(args, places))

\* executeSearchSpot of the api handler after the search was answered
executeSearchSpot_api_answer(args, ans) ==
  IF Ok(ans)
  THEN Done(toolsCall_api(formatSearchSpotResult_api(
                            args, ans.docs, OrEnum(args.response_format, "markdown"))),
            "success")
  ELSE Done(toolsCall_api(SearchFailed \o SearchError(ans)), "adapter_error")

\* an executor that leaves the token check to the adapter
executeBlockSession_api_nocheck(args, e) ==
  LET r == createCalendarEvent(e.token, args.title.v, args.start_time,
                               args.duration_minutes.v, BlockOptions(args))
  IN IF r.tag = "throw"
     THEN Done(toolsCall_api(BlockFailed \o r.msg), "adapter_error")
     ELSE Wait("await_calendar", r.req)

\* executeBlockSession of the api handler, up to its await
executeBlockSession_api(args, e) ==
  IF ~e.token
  THEN Done(toolsCall_api(Str("msg:X error-kakao-login-required", 49)),
            "no_credential")
  ELSE LET r == createCalendarEvent(e.token, args.title.v, args.start_time,
                                    args.duration_minutes.v, BlockOptions(args))
       IN IF r.tag = "throw"
          THEN Done(toolsCall_api(BlockFailed \o r.msg), "adapter_error")
          ELSE Wait("await_calendar", r.req)

executeBlockSession_api_answer(args, ans) ==
  IF Ok(ans)
  THEN LET output == BlockSessionOutput(args, ans)
       IN DoneWith(toolsCall_api(formatBlockSessionResult(output)),
                   CalendarConfirmation(output))
  ELSE Done(toolsCall_api(BlockFailed \o CalendarError(ans)), "adapter_error")

\* executeSendCommitment of the api handler, up to its await
executeSendCommitment_api(args, e, pick) ==
  IF ~e.token
  THEN Done(toolsCall_api(Str("msg:X error-kakao-login-required", 49)),
            "no_credential")
  ELSE LET encouragement ==
             OrStr(args.encouragement, ENCOURAGEMENT_MESSAGES[pick])
           r == sendCommitmentCard(e.token, args.goal.v,
                                   SendOptions(args, encouragement), pick)
       IN IF r.tag = "throw"
          THEN Done(toolsCall_api(SendFailed \o r.msg), "adapter_error")
          ELSE Wait("await_message", r.req)

executeSendCommitment_api_answer(args, encouragement, ans) ==
  IF Ok(ans)
  THEN LET output == SendCommitmentOutput(args, encouragement)
       IN DoneWith(toolsCall_api(formatSendCommitmentResult(output)),
                   MessageConfirmation(output))
  ELSE Done(toolsCall_api(SendFailed \o MessageError(ans)), "adapter_error")

\* executeTool of the api handler, up to the first await of the executor
executeTool_api(name, args, e, pick) ==
  CASE name = SEARCH ->
         IF ~SearchSpotInputSchema(args)
         THEN Done(toolsCall_api(InputError \o ZodMessage), "validation")
         ELSE Wait("await_address", AddressReq(args.location.v))
    [] name = BLOCK ->
         IF ~BlockSessionInputSchema(args)
         THEN Done(toolsCall_api(InputError \o ZodMessage), "validation")
         ELSE executeBlockSession_api(BlockSessionInput(args), e)
    [] name = SEND ->
         IF ~SendCommitmentInputSchema(args)
         THEN Done(toolsCall_api(InputError \o ZodMessage), "validation")
         ELSE executeSendCommitment_api(SendCommitmentInput(args), e, pick)
    [] OTHER -> Done(toolsCall_api(UnknownTool \o ToolName(name)), "unknown_tool")

\* ----------------------------------------- the inline handler (part_001)
LoginRequired_inline == Str("msg:X kakao-login-required", 45)

\* searchPlaces of the inline handler, from the coordinates to the request;
\* PURPOSE_CONFIG[purpose] is undefined for an unknown purpose
searchPlaces_inline_query(args, coords) ==
  IF args.purpose.v \notin PurposeSchema THEN Throw(TypeErrorMessage)
  ELSE LET searchKeyword == OrStr(args.keyword, defaultKeyword(args.purpose.v))
           fullQuery == args.location.v \o SPACE \o searchKeyword
       IN [tag |-> "request", c |-> NoCoords, msg |-> <<>>,
           req |-> SearchReq(fullQuery, coords, OrNum(args.radius, 500),
                             OrNum(args.limit, 5), categoryCode(args.purpose.v))]

\* searchPlaces and executeSearchSpot of the inline handler after the search
\* was answered
executeSearchSpot_inline_answer(args, ans) ==
  IF ans.kind # "http"
  THEN Done(toolsCall_inline(SearchFailed \o FetchMessage(ans)), "adapter_error")
  ELSE IF ~Ok(ans)
  THEN IF ans.status = 401
       THEN Done(toolsCall_inline(SearchFailed \o Str("msg:kakao-api-auth-failed", 15)),
                 "adapter_error")
       ELSE Done(toolsCall_inline(SearchFailed \o Str("msg:place-search-failed: ", 10)
                                  \o NumStr(ans.status)), "adapter_error")
  ELSE Done(toolsCall_inline(executeSearchSpot_render(args, ans.docs)), "success")

\* a default branch that leaves the name out of its text
unknownTool_inline_noname(name) ==
  Done(toolsCall_inline(UnknownTool), "unknown_tool")

\* the default branch of the inline executeTool
unknownTool_inline(name) ==
  Done(toolsCall_inline(UnknownTool \o ToolName(name)), "unknown_tool")

\* executeTool of the inline handler, up to the first await of the executor
executeTool_inline(name, args, e, pick) ==
  CASE name = SEARCH ->
         IF ~e.apiKey
         THEN Done(toolsCall_inline(SearchFailed
                     \o Str("msg:KAKAO_REST_API_KEY-not-set", 31)), "adapter_error")
         ELSE Wait("await_address", AddressReq(args.location.v))
    [] name = BLOCK ->
         IF ~e.token THEN Done(toolsCall_inline(LoginRequired_inline), "no_credential")
         ELSE IF ~args.start_time.parses
         THEN Done(toolsCall_inline(BlockFailed \o RangeErrorMessage), "adapter_error")
         ELSE Wait("await_calendar", CalendarReq(InlineCalendarEvent(args)))
    [] name = SEND ->
         IF ~e.token THEN Done(toolsCall_inline(LoginRequired_inline), "no_credential")
         ELSE Wait("await_message",
                   MessageReq(InlineTemplate(args,
                     OrStr(args.encouragement, ENCOURAGEMENT_MESSAGES[pick]))))
    [] OTHER -> unknownTool_inline(name)


\* ------------------------------------------------------- the state machine
\* ----------------------------------- the JSON-RPC handlers (part_000/001)
\* req.body: absent (undefined), null, a string, or an object whose jsonrpc,
\* method and params.name are as given ("absent" for a missing key)
Methods == {"initialize", "notifications/initialized", "tools/list",
            "tools/call", "ping"}
NoRequest ==
  [kind |-> "none", jsonrpc |-> "absent", method |-> "absent", name |-> "absent"]
Bodies ==
  {[NoRequest EXCEPT !.kind = k] : k \in {"absent", "null", "string"}}
  \cup [kind : {"object"}, jsonrpc : {"2.0", "1.0", "absent"},
        method : Methods \cup {"resources/list", "absent"},
        name : {"absent", SEARCH, "godsaeng_nap"}]
ToolsCall(name) ==
  [kind |-> "object", jsonrpc |-> "2.0", method |-> "tools/call", name |-> name]

\* res.status(status).json(...): code is the JSON-RPC error code, 0 without
NoReply == [status |-> 0, code |-> 0, body |-> "none"]
jsonRpcResponse == [status |-> 200, code |-> 0, body |-> "result"]
jsonRpcError(status, code) == [status |-> status, code |-> code, body |-> "error"]
\* the handler goes on to await executeTool
Execute == [status |-> 0, code |-> 0, body |-> "execute"]

\* the POST branch without the lookup of the name in TOOLS
handler_unchecked(body) ==
  IF body.kind \in {"absent", "null"} THEN jsonRpcError(500, -32603)
  ELSE IF body.jsonrpc # "2.0" THEN jsonRpcError(400, -32600)
  ELSE IF body.method = "initialize" THEN jsonRpcResponse
  ELSE IF body.method = "notifications/initialized"
  THEN [status |-> 200, code |-> 0, body |-> "empty"]
  ELSE IF body.method = "tools/list" THEN jsonRpcResponse
  ELSE IF body.method = "tools/call"
  THEN IF body.name = "absent" THEN jsonRpcError(400, -32602) ELSE Execute
  ELSE IF body.method = "ping" THEN jsonRpcResponse
  ELSE jsonRpcError(400, -32601)

\* the POST branch of handler, up to the await of executeTool; destructuring
\* an absent or null body throws into the catch
handler(body) ==
  IF body.kind \in {"absent", "null"} THEN jsonRpcError(500, -32603)
  ELSE IF body.jsonrpc # "2.0" THEN jsonRpcError(400, -32600)
  ELSE CASE body.method = "initialize" -> jsonRpcResponse
         [] body.method = "notifications/initialized" ->
              [status |-> 200, code |-> 0, body |-> "empty"]
         [] body.method = "tools/list" -> jsonRpcResponse
         [] body.method = "tools/call" ->
              IF body.name = "absent" THEN jsonRpcError(400, -32602)
              ELSE IF body.name \notin TOOLS THEN jsonRpcError(400, -32602)
              ELSE Execute
         [] body.method = "ping" -> jsonRpcResponse
         [] OTHER -> jsonRpcError(400, -32601)

VARIABLES
  pc,        \* where the call is: "idle", "await_address", "await_keyword",
             \* "await_search", "await_calendar", "await_message", "done"
  variant,   \* the dispatcher variant serving the call
  tool,      \* the tool name of the call
  args,      \* the raw arguments of the call
  input,     \* the arguments the executor works with (parsed, or raw)
  env,       \* the process environment of the call
  enc,       \* the encouragement line of the call
  outbound,  \* the outbound HTTP requests of the call, in order
  answers,   \* the provider's answers to them, in order
  result,    \* the envelope handed to the transport
  path,      \* the return the call took
  confirmation, \* what the output record keeps of the adapter's success value
  request,   \* the body of the POST the JSON-RPC handler is serving
  reply,     \* the handler's HTTP response to that POST
  http,      \* the HTTP request a serverless handler is serving and the
             \* responses written to it so far
  calls,     \* the calls in flight when the process serves several at once
  process    \* what those calls share: the program, its environment and
             \* the number of requests it accepted

single == <<pc, variant, tool, args, input, env, enc, outbound, answers, result,
            path, confirmation, request, reply, http>>
vars == <<single, calls, process>>

NoArgs == [extra |-> FALSE]
NoEnv == [token |-> FALSE, apiKey |-> FALSE]

\* the requests a process may have in flight at once, and the requests it
\* accepts in one behaviour
Slots == 1..2
MaxRequests == 3

\* the frame of one call: its parameters and locals, the server and the
\* transport serving it (0: the program creates none), and whether another
\* call took a step while it was in flight
NoCall ==
  [pc |-> "idle", variant |-> "none", tool |-> "none", args |-> NoArgs,
   input |-> NoArgs, enc |-> <<>>, pick |-> 1, outbound |-> <<>>,
   answers |-> <<>>, result |-> NoResult, path |-> "none", server |-> 0,
   transport |-> 0, overlapped |-> FALSE]
NoProcess == [variant |-> "none", env |-> NoEnv, made |-> 0]
\* no HTTP request is being served
NoHttp ==
  [variant |-> "none", method |-> "none", url |-> "none", body |-> NoRequest,
   stage |-> "idle", responses |-> <<>>]

NoCallServed ==
  /\ pc = "idle" /\ variant = "none" /\ tool = "none"
  /\ args = NoArgs /\ input = NoArgs /\ env = NoEnv /\ enc = <<>>
  /\ outbound = <<>> /\ answers = <<>>
  /\ result = NoResult /\ path = "none" /\ confirmation = NoConfirmation
  /\ request = NoRequest /\ reply = NoReply
  /\ http = NoHttp

Init ==
  /\ NoCallServed
  /\ calls = [i \in Slots |-> NoCall] /\ process = NoProcess

\* the tool names a call may carry: the three tools and an unregistered one
ToolNames == TOOLS \cup {"godsaeng_nap"}

\* what the executor works with: the schema's parsed data in the sdk and api
\* variants, the raw arguments in the inline variant
InputOf(v, name, a) ==
  IF v = "inline" THEN a
  ELSE CASE name = SEARCH /\ SearchSpotInputSchema(a) -> SearchSpotInput(a)
         [] name = BLOCK /\ BlockSessionInputSchema(a) -> BlockSessionInput(a)
         [] name = SEND /\ SendCommitmentInputSchema(a) -> SendCommitmentInput(a)
         [] OTHER -> a

\* the synchronous start of a call in each variant
Start(v, name, a, e, pick) ==
  CASE v = "sdk" /\ name = SEARCH -> registerSearchSpotTool(a, e)
    [] v = "sdk" /\ name = BLOCK -> registerBlockSessionTool(a, e)
    [] v = "sdk" /\ name = SEND -> registerSendCommitmentTool(a, e, pick)
    [] v = "api" -> executeTool_api(name, a, e, pick)
    [] v = "inline" -> executeTool_inline(name, a, e, pick)

Apply(v, o) ==
  /\ pc' = o.pc
  /\ reply' = IF o.pc = "done" /\ v \in {"api", "inline"}
              THEN jsonRpcResponse ELSE NoReply
  /\ result' = o.result
  /\ path' = o.path
  /\ confirmation' = o.conf
  /\ outbound' = outbound \o o.reqs

\* a tool call arrives and runs up to its first outbound request or its return
Serve(v, name, a, e, pick) ==
  /\ variant' = v /\ tool' = name /\ args' = a /\ env' = e
  /\ input' = InputOf(v, name, a)
  /\ enc' = IF name = SEND
            THEN OrStr(a.encouragement, ENCOURAGEMENT_MESSAGES[pick])
            ELSE <<>>
  /\ request' = IF v \in {"api", "inline"} /\ handler(ToolsCall(name)) = Execute
                THEN ToolsCall(name) ELSE NoRequest
  /\ Apply(v, Start(v, name, a, e, pick))
  /\ UNCHANGED <<answers, http, calls, process>>

Dispatch ==
  /\ pc = "idle"
  /\ \E v \in Variants, name \in ToolNames, e \in Envs :
       /\ (v = "sdk" => name \in TOOLS)
       /\ \E a \in ArgsOf(name), pick \in (IF name = SEND THEN 1..7 ELSE {1}) :
            Serve(v, name, a, e, pick)

\* the coordinate lookup of the serving variant
Lookup(c, step, ans) ==
  CASE c.variant = "sdk" -> getCoordinates(step, ans)
    [] c.variant = "inline" -> getCoordinates_inline(step, ans)
    [] c.variant = "api" -> coordinateLookup(step, ans, c.input.location.v)

\* searchPlaces / executeSearchSpot once the lookup ended with r
AfterLookup(c, r) ==
  CASE r.tag = "fallback" -> Wait("await_keyword", KeywordReq(c.input.location.v))
    [] r.tag = "null" /\ c.variant = "sdk" ->
         Done(searchSpot_catch(NotFoundMessage(c.input.location.v)), "adapter_error")
    [] r.tag = "null" /\ c.variant = "inline" ->
         Done(toolsCall_inline(SearchFailed \o NotFoundMessage(c.input.location.v)),
              "adapter_error")
    [] r.tag = "throw" ->
         Done(toolsCall_api(SearchFailed \o r.msg), "adapter_error")
    [] r.tag = "coords" /\ c.variant = "sdk" ->
         Wait("await_search", searchPlaces_query(c.input, r.c))
    [] r.tag = "coords" /\ c.variant = "api" ->
         Wait("await_search", executeSearchSpot_api_query(c.input, r.c))
    [] r.tag = "coords" /\ c.variant = "inline" ->
         LET q == searchPlaces_inline_query(c.input, r.c)
         IN IF q.tag = "throw"
            THEN Done(toolsCall_inline(SearchFailed \o q.msg), "adapter_error")
            ELSE Wait("await_search", q.req)

\* searchSpot / executeSearchSpot once the place search is answered
SearchStep(c, ans) ==
  CASE c.variant = "sdk" ->
         searchSpot_answer(c.input, c.outbound[Len(c.outbound)].query, ans)
    [] c.variant = "api" -> executeSearchSpot_api_answer(c.input, ans)
    [] c.variant = "inline" -> executeSearchSpot_inline_answer(c.input, ans)

InlineReturn(r, failed) ==
  IF r.tag = "throw" THEN Done(toolsCall_inline(failed \o r.msg), "adapter_error")
  ELSE Done(toolsCall_inline(r.msg), "success")

\* blockSession / executeBlockSession once the calendar POST is answered
CalendarStep(c, ans) ==
  CASE c.variant = "sdk" -> blockSession_answer(c.input, ans)
    [] c.variant = "api" -> executeBlockSession_api_answer(c.input, ans)
    [] c.variant = "inline" ->
         InlineReturn(executeBlockSession_answer(c.input, ans), BlockFailed)

\* sendCommitment / executeSendCommitment once the message POST is answered
MessageStep(c, ans) ==
  CASE c.variant = "sdk" -> sendCommitment_answer(c.input, c.enc, ans)
    [] c.variant = "api" -> executeSendCommitment_api_answer(c.input, c.enc, ans)
    [] c.variant = "inline" ->
         InlineReturn(executeSendCommitment_answer(c.input, c.enc, ans), SendFailed)

\* the stretch of the call c that the answer ans to its pending request starts
Step(c, ans) ==
  CASE c.pc = "await_address" -> AfterLookup(c, Lookup(c, "address", ans))
    [] c.pc = "await_keyword" -> AfterLookup(c, Lookup(c, "keyword", ans))
    [] c.pc = "await_search" -> SearchStep(c, ans)
    [] c.pc = "await_calendar" -> CalendarStep(c, ans)
    [] c.pc = "await_message" -> MessageStep(c, ans)

\* the call the process is serving, as the executors see it
Self == [pc |-> pc, variant |-> variant, input |-> input, enc |-> enc,
         outbound |-> outbound]

Answered(ans) ==
  /\ answers' = Append(answers, ans)
  /\ UNCHANGED <<variant, tool, args, input, env, enc, request, http, calls,
                 process>>

\* the provider answers the address lookup
AddressAnswer ==
  /\ pc = "await_address"
  /\ \E ans \in LookupAnswers("address") :
       Apply(variant, AfterLookup(Self, Lookup(Self, "address", ans))) /\ Answered(ans)

\* the provider answers the keyword lookup
KeywordAnswer ==
  /\ pc = "await_keyword"
  /\ \E ans \in LookupAnswers("keyword") :
       Apply(variant, AfterLookup(Self, Lookup(Self, "keyword", ans))) /\ Answered(ans)

\* the markdown a variant renders for the documents, before any truncation
NaturalMarkdown(docs) ==
  IF variant = "sdk"
  THEN formatSearchSpotResult(
         SearchSpotOutput(input, outbound[Len(outbound)].query, docs), "markdown")
  ELSE InlineMarkdown(input, docs)

\* name lengths of the first document: a short name, and the two lengths that
\* put the natural markdown exactly at and one above the character limit
NameLens(k) ==
  LET at == CHARACTER_LIMIT + 1 - StrLen(NaturalMarkdown(PlaceDocs(k, 1)))
  IN IF k = 1 THEN {3, at, at + 1} ELSE {3}

SearchAnswers ==
  {HttpAnswer(200, <<>>, <<>>)}
  \cup UNION {{HttpAnswer(200, PlaceDocs(k, n), <<>>) : n \in NameLens(k)} : k \in 1..MaxDocs}
  \cup {HttpAnswer(s, <<>>, <<>>) : s \in Statuses \ {200}}
  \cup {NetErr, Timeout}

\* the provider answers the place search
SearchAnswer ==
  /\ pc = "await_search"
  /\ \E ans \in SearchAnswers :
       /\ Apply(variant, SearchStep(Self, ans))
       /\ Answered(ans)

\* the provider answers the calendar POST
CalendarAnswer ==
  /\ pc = "await_calendar"
  /\ \E ans \in CalendarAnswers :
       /\ Apply(variant, CalendarStep(Self, ans))
       /\ Answered(ans)

\* the provider answers the message POST
MessageAnswer ==
  /\ pc = "await_message"
  /\ \E ans \in PostAnswers :
       /\ Apply(variant, MessageStep(Self, ans))
       /\ Answered(ans)

\* a POST that the handler of part_000 or part_001 answers without running
\* executeTool (a POST that runs it is Dispatch)
Post ==
  /\ pc = "idle"
  /\ \E v \in {"api", "inline"}, body \in Bodies :
       /\ handler(body) # Execute
       /\ pc' = "replied" /\ variant' = v
       /\ request' = body /\ reply' = handler(body)
       /\ UNCHANGED <<tool, args, input, env, enc, outbound, answers, result,
                      path, confirmation, http, calls, process>>

\* the envelope went to the transport; the process serves the next call
Return ==
  /\ pc \in {"done", "replied"}
  /\ pc' = "idle" /\ variant' = "none" /\ tool' = "none"
  /\ args' = NoArgs /\ input' = NoArgs /\ env' = NoEnv /\ enc' = <<>>
  /\ outbound' = <<>> /\ answers' = <<>>
  /\ result' = NoResult /\ path' = "none" /\ confirmation' = NoConfirmation
  /\ request' = NoRequest /\ reply' = NoReply
  /\ UNCHANGED <<http, calls, process>>

Next ==
  \/ Dispatch
  \/ Post
  \/ AddressAnswer
  \/ KeywordAnswer
  \/ SearchAnswer
  \/ CalendarAnswer
  \/ MessageAnswer
  \/ Return

Spec == Init /\ [][Next]_vars

\* a call served by the registered tools of the SDK server alone
DispatchSdk == Dispatch /\ variant' = "sdk"

NextSdk ==
  \/ DispatchSdk
  \/ AddressAnswer
  \/ KeywordAnswer
  \/ SearchAnswer
  \/ CalendarAnswer
  \/ MessageAnswer
  \/ Return

SpecSdk == Init /\ [][NextSdk]_vars

\* ------------------------------------------ a 2xx answer with a bad body
\* the body of a 2xx answer that is not what the provider documents: text
\* that is no JSON, the JSON null, or an object without the expected fields
BodyShapes == {"text", "null", "object"}
Malformed(shape) ==
  [kind |-> "http", status |-> 200, docs |-> <<>>, msg |-> <<>>,
   event_id |-> <<>>, shape |-> shape]
\* message of the SyntaxError that response.json() raises on such text
SyntaxErrorMessage == Str("SyntaxError:json", 1)
Awaiting == {"await_address", "await_keyword", "await_search",
             "await_calendar", "await_message"}

\* the exception left the handler: its promise rejects and no envelope exists
MalformedStep_uncaught(c, shape) ==
  [Done(NoResult, "none") EXCEPT !.pc = "escaped"]

\* the stretch of the call c that such an answer starts: reading a field of
\* the body throws inside the try of the adapter or of the executor, and the
\* POST adapters that never read the body go on as after any 2xx
MalformedStep(c, shape) ==
  LET thrown == IF shape = "text" /\ c.variant = "inline"
                THEN SyntaxErrorMessage ELSE TypeErrorMessage
  IN CASE c.pc \in {"await_address", "await_keyword"} ->
            IF c.variant = "api" THEN AfterLookup(c, Throw(thrown))
            ELSE AfterLookup(c, Null)
       [] c.pc = "await_search" ->
            IF c.variant = "sdk"
            THEN Done(searchSpot_catch(thrown), "adapter_error")
            ELSE IF c.variant = "api"
            THEN Done(toolsCall_api(SearchFailed \o thrown), "adapter_error")
            ELSE Done(toolsCall_inline(SearchFailed \o thrown), "adapter_error")
       [] c.pc = "await_calendar" ->
            IF c.variant = "sdk" /\ shape = "null"
            THEN Done(blockSession_catch(thrown), "adapter_error")
            ELSE IF c.variant = "api" /\ shape = "null"
            THEN Done(toolsCall_api(BlockFailed \o thrown), "adapter_error")
            ELSE CalendarStep(c, Malformed(shape))
       [] c.pc = "await_message" -> MessageStep(c, Malformed(shape))

\* the provider answers the pending request with a 2xx and such a body
MalformedAnswer ==
  /\ pc \in Awaiting
  /\ \E shape \in BodyShapes :
       Apply(variant, MalformedStep(Self, shape)) /\ Answered(Malformed(shape))

\* the arguments of the calls followed to their return: for each tool,
\* arguments that satisfy its schema and arguments that violate it
LiveArgs(name) ==
  CASE name = SEARCH ->
         {a \in SearchArgs :
            /\ a.purpose \in {Some("study"), Some("nap")} /\ a.keyword = NoStr
            /\ a.location \in {Some(Str("loc", 3)), Some(<<>>)}
            /\ a.radius = NoNum /\ a.limit = NoNum
            /\ a.response_format \in {NoEnum, Some("json")} /\ ~a.extra}
    [] name = BLOCK ->
         {a \in BlockArgs :
            /\ a.title \in {Some(Str("title", 5)), Some(<<>>)}
            /\ a.location_name \in {NoStr, Some(Str("lname", 4))}
            /\ a.location_address = NoStr
            /\ a.duration_minutes = Some(15) /\ a.reminder_minutes = NoNum
            /\ a.color = NoEnum /\ ~a.extra}
    [] name = SEND ->
         {a \in SendArgs :
            /\ a.goal \in {Some(Str("goal", 1)), Some(Str("goal", 0))}
            /\ a.location_name = NoStr /\ a.location_url = NoUrl
            /\ a.encouragement = NoStr /\ ~a.extra}
    [] OTHER -> ArgsOf(name)

\* a tool call arrives, as in Dispatch
DispatchLive ==
  /\ pc = "idle"
  /\ \E v \in Variants, name \in ToolNames, e \in Envs :
       /\ (v = "sdk" => name \in TOOLS)
       /\ \E a \in LiveArgs(name) : Serve(v, name, a, e, 1)

NextLive ==
  \/ DispatchLive
  \/ Post
  \/ AddressAnswer
  \/ KeywordAnswer
  \/ SearchAnswer
  \/ CalendarAnswer
  \/ MessageAnswer
  \/ MalformedAnswer
  \/ Return

\* every outbound request carries the 10 s timeout (axios timeout, the
\* AbortController of fetchWithTimeout): the timer of a request that is still
\* pending fires, and the awaited promise rejects
TimeoutFires ==
  /\ pc \in Awaiting
  /\ LET ans == IF pc = "await_calendar"
                THEN CHOOSE a \in CalendarAnswers : a.kind = "timeout"
                ELSE Timeout
     IN Apply(variant, Step(Self, ans)) /\ Answered(ans)

SpecLive == Init /\ [][NextLive]_vars /\ WF_vars(TimeoutFires)

\* ------------------------------------------- several calls in one process
\* new McpServer / new StreamableHTTPServerTransport inside the POST route:
\* the request that is the made-th one accepted gets instances of its own
createServer_shared(made) == IF made > 0 THEN 1 ELSE made + 1
createServer(made) == made + 1
newTransport(made) == made + 1

\* the arguments, picks and answers of the calls that are served together
PairArgs(name) ==
  CASE name = SEARCH ->
         {a \in SearchArgs :
            /\ a.purpose = Some("study") /\ a.keyword = NoStr
            /\ a.location \in {Some(Str("loc", 3)), Some(<<>>)}
            /\ a.radius = NoNum /\ a.limit = NoNum
            /\ a.response_format \in {NoEnum, Some("json")} /\ ~a.extra}
    [] name = BLOCK ->
         {a \in BlockArgs :
            /\ a.title \in {Some(Str("title", 5)), Some(<<>>)}
            /\ a.location_name \in {NoStr, Some(Str("lname", 4))}
            /\ a.location_address = NoStr
            /\ a.start_time.matches /\ a.start_time.parses
            /\ a.duration_minutes = Some(15) /\ a.reminder_minutes = NoNum
            /\ a.color = NoEnum /\ ~a.extra}
    [] name = SEND ->
         {a \in SendArgs :
            /\ a.goal = Some(Str("goal", 1)) /\ a.location_name = NoStr
            /\ a.location_url = NoUrl /\ a.encouragement = NoStr
            /\ a.template_type \in {NoEnum, Some("text")} /\ ~a.extra}
PairPicks(name) == IF name = SEND THEN {1, 2} ELSE {1}
PairAnswers(at) ==
  CASE at = "await_address" ->
         {a \in LookupAnswers("address") : Ok(a) \/ a.kind = "timeout"}
    [] at = "await_keyword" ->
         {a \in LookupAnswers("keyword") : Ok(a) \/ a.kind = "timeout"}
    [] at = "await_search" ->
         {HttpAnswer(200, PlaceDocs(1, 3), <<>>), HttpAnswer(401, <<>>, <<>>)}
    [] at = "await_calendar" ->
         {a \in CalendarAnswers : a.status \in {200, 401} /\ a.msg = <<>>}
    [] at = "await_message" ->
         {a \in PostAnswers : a.status \in {200, 403} /\ a.msg = <<>>}

\* the frame of a call of the tool name as the program v creates it
Frame(v, name, a, pick) ==
  [NoCall EXCEPT !.variant = v, !.tool = name, !.args = a,
                 !.input = InputOf(v, name, a), !.pick = pick,
                 !.enc = IF name = SEND
                         THEN OrStr(a.encouragement, ENCOURAGEMENT_MESSAGES[pick])
                         ELSE <<>>]

\* the call c after a synchronous stretch that ended with the outcome o
Advance(c, o) ==
  [c EXCEPT !.pc = o.pc, !.result = o.result, !.path = o.path,
            !.outbound = @ \o o.reqs]

\* the other calls in flight saw a step of the call i
Overlap(cs, i) ==
  [j \in Slots |-> IF j # i /\ cs[j].pc # "idle"
                   THEN [cs[j] EXCEPT !.overlapped = TRUE] ELSE cs[j]]

\* a POST with a tools/call arrives while the process may be serving another
Accept ==
  \E i \in Slots :
    /\ calls[i].pc = "idle" /\ process.made < MaxRequests
    /\ \E name \in TOOLS :
         \E a \in PairArgs(name), pick \in PairPicks(name) :
           LET v == process.variant
               c == [Frame(v, name, a, pick) EXCEPT
                       !.server = IF v = "sdk" THEN createServer(process.made)
                                  ELSE 0,
                       !.transport = IF v = "sdk" THEN newTransport(process.made)
                                     ELSE 0]
               o == Start(v, name, a, process.env, pick)
           IN calls' = [Overlap(calls, i) EXCEPT ![i] = Advance(c, o)]
    /\ process' = [process EXCEPT !.made = @ + 1]
    /\ UNCHANGED single

\* the provider answers the pending request of one of the calls
Settle ==
  \E i \in Slots :
    /\ calls[i].pc \notin {"idle", "done"}
    /\ \E ans \in PairAnswers(calls[i].pc) :
         calls' = [Overlap(calls, i) EXCEPT
                     ![i] = [Advance(calls[i], Step(calls[i], ans)) EXCEPT
                               !.answers = Append(@, ans)]]
    /\ UNCHANGED <<single, process>>

\* the transport of one of the calls wrote the response and was closed
Close ==
  \E i \in Slots :
    /\ calls[i].pc = "done"
    /\ calls' = [calls EXCEPT ![i] = NoCall]
    /\ UNCHANGED <<single, process>>

InitPair ==
  /\ NoCallServed
  /\ calls = [i \in Slots |-> NoCall]
  /\ process \in [variant : Variants, env : Envs, made : {0}]

NextPair ==
  \/ Accept
  \/ Settle
  \/ Close

SpecPair == InitPair /\ [][NextPair]_vars

\* ------------------------------------------------ the serverless handlers
\* the requests a handler is sent: a method, a path, a body
HttpMethods == {"OPTIONS", "GET", "POST", "DELETE", "PUT"}
Urls == {"/", "/health", "/api/health", "/mcp", "/api", "/elsewhere"}

\* res.status(status).json(...) or .end(): one more response on the request
send(h, status) == [h EXCEPT !.responses = Append(@, status)]
headersSent(h) == h.responses # <<>>

\* a branch of a handler that answers and returns, and one that awaits first
Branch(status) == [status |-> status, await |-> "none"]
Await(what) == [status |-> 0, await |-> what]

\* handler of part_000, up to its return or its await of executeTool
handler_api(method, url, body) ==
  IF method = "OPTIONS" THEN Branch(200)
  ELSE IF method = "GET" /\ url = "/" THEN Branch(302)
  ELSE IF method = "GET" /\ url = "/health" THEN Branch(200)
  ELSE IF method = "POST" /\ url \in {"/mcp", "/api"}
  THEN IF handler(body) = Execute THEN Await("executeTool")
       ELSE Branch(handler(body).status)
  ELSE IF method = "DELETE" THEN Branch(200)
  ELSE Branch(405)

\* handler of part_001, up to its return or its await of executeTool
handler_inline(method, url, body) ==
  IF method = "OPTIONS" THEN Branch(200)
  ELSE IF method = "GET" /\ url \in {"/health", "/api/health"} THEN Branch(200)
  ELSE IF method = "POST"
  THEN IF handler(body) = Execute THEN Await("executeTool")
       ELSE Branch(handler(body).status)
  ELSE IF method = "DELETE" THEN Branch(200)
  ELSE Branch(405)

\* handler of src/api/index.ts, up to its return or its await of the server
\* and of transport.handleRequest
handler_sdk(method, url, body) ==
  IF method = "OPTIONS" THEN Branch(200)
  ELSE IF url = "/health" \/ (method = "GET" /\ url = "/") THEN Branch(200)
  ELSE IF method = "POST" THEN Await("handleRequest")
  ELSE Branch(405)

Route(v, method, url, body) ==
  CASE v = "api" -> handler_api(method, url, body)
    [] v = "inline" -> handler_inline(method, url, body)
    [] v = "sdk" -> handler_sdk(method, url, body)

\* the catch of the POST branch of src/api/index.ts, without its test of
\* res.headersSent
postCatch_unguarded(h) == send(h, 500)
\* the catch of the POST branch of src/api/index.ts
postCatch(h) == IF ~headersSent(h) THEN send(h, 500) ELSE h

\* how the awaited createServer, connect and transport.handleRequest end: the
\* transport wrote the response, something threw before a response was
\* written, or something threw after the transport wrote it
TransportOutcomes == {"responded", "threw", "responded_threw"}

call == <<pc, variant, tool, args, input, env, enc, outbound, answers, result,
          path, confirmation, request, reply>>

\* a request arrives and the handler runs up to its return or its first await
Request ==
  /\ http.stage = "idle"
  /\ \E v \in Variants, method \in HttpMethods, url \in Urls, body \in Bodies :
       LET r == Route(v, method, url, body)
           h == [variant |-> v, method |-> method, url |-> url, body |-> body,
                 stage |-> "handling", responses |-> <<>>]
       IN http' = IF r.await = "none"
                  THEN [send(h, r.status) EXCEPT !.stage = "returned"]
                  ELSE [h EXCEPT !.stage = r.await]
  /\ UNCHANGED <<call, calls, process>>

\* executeTool settles: its text goes out with 200, what it throws is caught
\* and goes out with 500
ToolSettles ==
  /\ http.stage = "executeTool"
  /\ \E threw \in BOOLEAN :
       http' = [send(http, IF threw THEN 500 ELSE 200) EXCEPT !.stage = "returned"]
  /\ UNCHANGED <<call, calls, process>>

\* the server and the transport settle
TransportSettles ==
  /\ http.stage = "handleRequest"
  /\ \E o \in TransportOutcomes :
       LET written == IF o = "threw" THEN http ELSE send(http, 200)
           caught == IF o = "responded" THEN written ELSE postCatch(written)
       IN http' = [caught EXCEPT !.stage = "returned"]
  /\ UNCHANGED <<call, calls, process>>

\* the handler returned; the next request
Finish ==
  /\ http.stage = "returned"
  /\ http' = NoHttp
  /\ UNCHANGED <<call, calls, process>>

NextHttp ==
  \/ Request
  \/ ToolSettles
  \/ TransportSettles
  \/ Finish

SpecHttp == Init /\ [][NextHttp]_vars

\* the call run from its frame with the process to itself: the same
\* stretches, each started by the next of the answers
RECURSIVE Replay(_, _)
Replay(c, answered) ==
  IF answered = <<>> THEN c
  ELSE Replay(Advance(c, Step(c, Head(answered))), Tail(answered))
Alone(c) ==
  Replay(Advance(Frame(c.variant, c.tool, c.args, c.pick),
                 Start(c.variant, c.tool, c.args, process.env, c.pick)),
         c.answers)



\* ================================================================ properties
\* the arguments satisfy the schema of the tool
ValidArgs(name, a) ==
  CASE name = SEARCH -> SearchSpotInputSchema(a)
    [] name = BLOCK -> BlockSessionInputSchema(a)
    [] name = SEND -> SendCommitmentInputSchema(a)
    [] OTHER -> FALSE

HasTag(text, tag) == \E i \in 1..Len(text) : text[i].c = tag
\* the text holds the run tagged tag immediately followed by the string s
Names(text, tag, s) ==
  \E i \in 1..Len(text) :
    /\ text[i].c = tag
    /\ i + Len(s) <= Len(text)
    /\ SubSeq(text, i + 1, i + Len(s)) = s

InCall == pc \notin {"idle", "replied"}
Returned == pc = "done"

\* C1: a call of one of the three tools whose arguments violate the tool's
\* schema ends in a failure result without any outbound HTTP request, in
\* every dispatcher variant.
C1_InvalidArgsNoOutbound ==
  (InCall /\ tool \in TOOLS /\ ~ValidArgs(tool, args))
    => (Returned /\ path # "success" /\ outbound = <<>>)

\* C2: every path of a tool call hands the transport an envelope whose
\* isError flag is true on the failure paths and not true on the success
\* path.
C2_IsErrorOnEveryFailure ==
  (Returned /\ tool \in TOOLS)
    => /\ path # "success" => result.isError = "true"
       /\ path = "success" => result.isError # "true"

\* C3: executeTool, given a name that is none of the three tools, returns at
\* once a failure text naming that tool and issues no outbound request.
C3_UnknownToolFails ==
  (InCall /\ tool \notin TOOLS)
    => /\ Returned
       /\ path = "unknown_tool"
       /\ outbound = <<>>
       /\ Names(result.text, "X unknown tool: ", ToolName(tool))

C3_Witness ==
  Returned /\ tool \notin TOOLS /\ variant = "inline" /\ path = "unknown_tool"

LoginRequiredTags ==
  {"msg:error-kakao-login-required", "msg:X error-kakao-login-required",
   "msg:X kakao-login-required"}

ZeroDocs(ans) == Ok(ans) /\ Len(ans.docs) = 0
FirstHit(ans) == [x |-> ans.docs[1].x, y |-> ans.docs[1].y]

\* C5: in a place search the address lookup comes first; the keyword lookup
\* is issued only after the address lookup returned zero documents; the
\* search request carries the first hit's coordinates of the lookup that
\* matched; when both lookups return zero documents the call fails with the
\* location-not-found message naming the location and no search request is
\* issued.
C5_TwoStepLookup ==
  (InCall /\ tool = SEARCH)
    => /\ outbound # <<>> => outbound[1].kind = "address"
       /\ \A i \in 1..Len(outbound) :
            /\ outbound[i].kind = "address" => i = 1
            /\ outbound[i].kind = "keyword"
                 => i = 2 /\ outbound[1].kind = "address" /\ ZeroDocs(answers[1])
            /\ outbound[i].kind = "search"
                 => /\ i > 1
                    /\ outbound[i - 1].kind \in {"address", "keyword"}
                    /\ Ok(answers[i - 1]) /\ Len(answers[i - 1].docs) > 0
                    /\ outbound[i].x = FirstHit(answers[i - 1]).x
                    /\ outbound[i].y = FirstHit(answers[i - 1]).y
       /\ (Len(answers) >= 2 /\ ZeroDocs(answers[1]) /\ ZeroDocs(answers[2]))
            => /\ Returned /\ path = "adapter_error"
               /\ Len(outbound) = 2
               /\ Names(result.text, "msg:location-not-found: ", args.location.v)

C5_Witness ==
  /\ Returned /\ tool = SEARCH /\ Len(outbound) = 3
  /\ outbound[2].kind = "keyword" /\ outbound[3].kind = "search"
  /\ outbound[3].x = "keyword-x1"

C5_WitnessNotFound ==
  /\ Returned /\ tool = SEARCH /\ Len(answers) = 2
  /\ ZeroDocs(answers[1]) /\ ZeroDocs(answers[2])


LastAnswer == answers[Len(answers)]
IsUnauthorized(text) ==
  HasTag(text, "msg:kakao-api-auth-failed-check-key")
  \/ HasTag(text, "msg:kakao-api-auth-failed")
IsRateLimited(text) == HasTag(text, "msg:api-rate-limit-exceeded")
IsProviderError(text, status) ==
  HasTag(text, "msg:place-search-failed: ") /\ HasTag(text, ToString(status))

\* C6: in a place search, a provider answer of 401 to a request of the search
\* fails the call as Unauthorized, 429 as RateLimited, any other non-2xx as
\* ProviderError with the status, and never as location-not-found.
C6_SearchStatusTranslation ==
  (Returned /\ tool = SEARCH /\ ValidArgs(tool, args) /\ answers # <<>>
     /\ LastAnswer.kind = "http" /\ ~Ok(LastAnswer))
    => /\ path = "adapter_error"
       /\ ~HasTag(result.text, "msg:location-not-found: ")
       /\ LastAnswer.status = 401 => IsUnauthorized(result.text)
       /\ LastAnswer.status = 429 => IsRateLimited(result.text)
       /\ LastAnswer.status \notin {401, 429}
            => IsProviderError(result.text, LastAnswer.status)

\* C7: for validated search arguments the query of the search request is the
\* location, one space, and the caller's keyword whenever one is supplied,
\* the purpose's default term otherwise; the category filter is sent exactly
\* for the purposes study and reading.
C7_QueryComposition ==
  (InCall /\ tool = SEARCH /\ ValidArgs(tool, args))
    => \A i \in 1..Len(outbound) :
         outbound[i].kind = "search"
           => /\ outbound[i].query =
                   args.location.v \o SPACE
                   \o (IF args.keyword.present THEN args.keyword.v
                       ELSE defaultKeyword(args.purpose.v))
              /\ (outbound[i].category # "none")
                   <=> (args.purpose.v \in {"study", "reading"})

\* the multiple of 5 nearest to m
Nearest5(m) == CHOOSE r \in (m - 2)..(m + 2) : r % 5 = 0

\* C8: for reminder_minutes in 0..1440 the submitted event carries the single
\* reminder Nearest5(reminder_minutes), the reminders field is omitted
\* exactly when that value is 0, and the default 15 stands in only for an
\* absent reminder_minutes.
C8_ReminderSnapping ==
  (InCall /\ tool = BLOCK /\ ValidArgs(tool, args))
    => \A i \in 1..Len(outbound) :
         outbound[i].kind = "calendar"
           => LET m == IF args.reminder_minutes.present
                       THEN args.reminder_minutes.v ELSE 15
                  r == Nearest5(m)
                  reminders == outbound[i].event.reminders
              IN /\ reminders.present <=> (r # 0)
                 /\ reminders.present => reminders.v = <<r>>

RECURSIVE CharAt(_, _)
\* the source tag of the i-th character of s, 1 <= i <= StrLen(s)
CharAt(s, i) ==
  IF i <= Head(s).n THEN Head(s).c ELSE CharAt(Tail(s), i - Head(s).n)

Composed ==
  Str("[todays-godsaeng-goal]", 11) \o NL \o NL \o args.goal.v \o NL \o NL \o enc

\* C9: the text of a submitted text template is the first 200 characters of
\* heading, blank line, goal, blank line, encouragement: 200 characters when
\* the composed string is longer, the whole composed string otherwise.
C9_TextTemplateCut ==
  \A i \in 1..Len(outbound) :
    (outbound[i].kind = "message" /\ outbound[i].template.object_type = "text")
      => LET text == outbound[i].template.text
         IN /\ StrLen(text) <= 200
            /\ StrLen(Composed) > 200 => StrLen(text) = 200
            /\ StrLen(Composed) <= 200 => StrLen(text) = StrLen(Composed)
            /\ \A j \in 1..StrLen(text) : CharAt(text, j) = CharAt(Composed, j)

C9_Witness ==
  /\ InCall /\ tool = SEND /\ variant = "sdk" /\ Len(outbound) = 1
  /\ outbound[1].template.object_type = "text"
  /\ StrLen(Composed) > 200
  /\ StrLen(outbound[1].template.text) = 200

\* C10: a markdown render of a search result longer than 25,000 characters
\* is cut to the ceiling minus the notice length with the notice appended,
\* and a render at or below the ceiling is returned unchanged, in every
\* formatter.
C10_MarkdownTruncation ==
  (Returned /\ tool = SEARCH /\ path = "success" /\ ValidArgs(tool, args)
     /\ (args.response_format.present => args.response_format.v = "markdown"))
    => LET natural == NaturalMarkdown(LastAnswer.docs)
           notice == Str("\\n\\n... (response was cut)", 17)
       IN /\ StrLen(result.text) <= CHARACTER_LIMIT
          /\ StrLen(natural) <= CHARACTER_LIMIT => result.text = natural
          /\ StrLen(natural) > CHARACTER_LIMIT
               => result.text =
                    substring(natural, CHARACTER_LIMIT - StrLen(notice)) \o notice


SearchFields == {"purpose", "keyword", "location", "radius", "limit",
                 "response_format"}

\* C11: for valid search arguments every supplied field reaches the executor
\* unchanged, and the search request carries the supplied radius and limit,
\* 500 and 5 standing in only for an absent radius and an absent limit.
C11_ValidateKeepsSupplied ==
  (InCall /\ tool = SEARCH /\ ValidArgs(tool, args))
    => /\ \A f \in SearchFields : args[f].present => input[f] = args[f]
       /\ \A i \in 1..Len(outbound) :
            outbound[i].kind = "search"
              => /\ outbound[i].radius =
                      (IF args.radius.present THEN args.radius.v ELSE 500)
                 /\ outbound[i].size =
                      (IF args.limit.present THEN args.limit.v ELSE 5)

C11_Witness ==
  /\ InCall /\ tool = SEARCH /\ ValidArgs(tool, args) /\ variant = "sdk"
  /\ args.radius = Some(1000) /\ ~args.limit.present
  /\ Len(outbound) = 2 /\ outbound[2].kind = "search"
  /\ outbound[2].radius = 1000 /\ outbound[2].size = 5

\* C12: a call of one of the three tools whose arguments hold a field the
\* tool's schema does not declare is rejected as a validation failure and
\* issues no outbound request, whatever the other fields are.
C12_ExtraFieldRejected ==
  (InCall /\ tool \in TOOLS /\ args.extra)
    => (Returned /\ path = "validation" /\ outbound = <<>>)

\* the text holds the string s as consecutive runs
Contains(text, s) ==
  \E i \in 0..(Len(text) - Len(s)) : SubSeq(text, i + 1, i + Len(s)) = s

CalendarUnauthorized(text) ==
  HasTag(text, "msg:kakao-auth-expired-login-again")
  \/ HasTag(text, "msg:kakao-auth-expired")
CalendarForbidden(text) ==
  HasTag(text, "msg:no-talk_calendar-scope")
  \/ HasTag(text, "msg:talk-calendar-scope-needed")

\* C13: the answer to the calendar POST decides the call: 401 gives the
\* Unauthorized failure, 403 the Forbidden failure naming the calendar scope,
\* 400 a ProviderError holding the provider's message, any other non-2xx a
\* ProviderError holding the status, and exactly a 2xx a success whose
\* confirmation carries the event identifier the provider issued.
C13_CalendarStatusTranslation ==
  (Returned /\ tool = BLOCK /\ ValidArgs(tool, args) /\ answers # <<>>)
    => LET ans == LastAnswer
       IN /\ (path = "success") <=> Ok(ans)
          /\ ~Ok(ans) => path = "adapter_error"
          /\ Ok(ans) => /\ ans.event_id # <<>>
                        /\ confirmation.eventId = ans.event_id
          /\ (ans.kind = "http" /\ ans.status = 401)
               => CalendarUnauthorized(result.text)
          /\ (ans.kind = "http" /\ ans.status = 403)
               => CalendarForbidden(result.text)
          /\ (ans.kind = "http" /\ ans.status = 400 /\ ans.msg # <<>>)
               => /\ HasTag(result.text, "msg:event-create-failed: ")
                  /\ Contains(result.text, ans.msg)
          /\ (ans.kind = "http" /\ ans.status \in {429, 500})
               => /\ HasTag(result.text, "msg:event-create-failed: ")
                  /\ HasTag(result.text, ToString(ans.status))

MessageUnauthorized(text) ==
  HasTag(text, "msg:kakao-auth-expired-login-again")
  \/ HasTag(text, "msg:kakao-auth-expired")
MessageForbidden(text) ==
  HasTag(text, "msg:no-talk_message-scope")
  \/ HasTag(text, "msg:message-scope-needed")

\* C14: the answer to the message POST decides the call: 401 gives the
\* Unauthorized failure, 403 the Forbidden failure naming the message scope,
\* any other non-2xx a ProviderError, and a success (confirmation with
\* success = true) is produced exactly after a 2xx answer.
C14_MessageStatusTranslation ==
  (Returned /\ tool = SEND /\ ValidArgs(tool, args) /\ answers # <<>>)
    => LET ans == LastAnswer
       IN /\ (path = "success") <=> Ok(ans)
          /\ confirmation.success => Ok(ans)
          /\ (Ok(ans) /\ variant # "inline") => confirmation.success
          /\ ~Ok(ans) => path = "adapter_error"
          /\ (ans.kind = "http" /\ ans.status = 401)
               => MessageUnauthorized(result.text)
          /\ (ans.kind = "http" /\ ans.status = 403)
               => MessageForbidden(result.text)
          /\ (ans.kind = "http" /\ ans.status \in {400, 429, 500})
               => /\ HasTag(result.text, "msg:message-send-failed: ")
                  /\ ~MessageUnauthorized(result.text)
                  /\ ~MessageForbidden(result.text)

C14_Witness ==
  /\ Returned /\ tool = SEND /\ ValidArgs(tool, args) /\ variant = "sdk"
  /\ Len(answers) = 1 /\ answers[1].kind = "http" /\ answers[1].status = 403
  /\ MessageForbidden(result.text) /\ result.isError = "true"

\* C15: a call never repeats an outbound request: block-session and
\* send-commitment issue at most one, a search at most the address lookup,
\* the keyword lookup and the place search, each once and in that order, and
\* no request follows a request that failed.
C15_NoRetry ==
  InCall
    => /\ tool \in {BLOCK, SEND} => Len(outbound) <= 1
       /\ tool = SEARCH => Len(outbound) <= 3
       /\ \A i, j \in 1..Len(outbound) :
            outbound[i].kind = outbound[j].kind => i = j
       /\ \A i \in 1..Len(answers) : ~Ok(answers[i]) => Len(outbound) = i

C15_Witness ==
  /\ Returned /\ tool = SEARCH /\ variant = "sdk" /\ Len(outbound) = 2
  /\ outbound[2].kind = "keyword" /\ Len(answers) = 2 /\ ~Ok(answers[2])

TimeoutReported(text) ==
  HasTag(text, "timeout of 10000ms exceeded")
  \/ HasTag(text, "This operation was aborted")

\* C16: when an outbound request of a call, the two coordinate lookups
\* included, runs into the 10 second timeout, the call fails with the timeout
\* failure itself, not with another error class, and returns no result.
C16_TimeoutSurfaced ==
  (InCall /\ answers # <<>> /\ LastAnswer.kind = "timeout")
    => /\ Returned
       /\ path = "adapter_error"
       /\ TimeoutReported(result.text)
       /\ ~HasTag(result.text, "msg:location-not-found: ")

BadEnvelope(body) == body.kind # "object" \/ body.jsonrpc # "2.0"

\* C17: the JSON-RPC endpoint answers a bad envelope (absent or non-object
\* body, jsonrpc other than "2.0") with -32600, otherwise an unknown method
\* with -32601, a tools/call with a missing or unknown tool name with -32602,
\* and produces no error code other than these and -32603.
C17_JsonRpcErrorCodes ==
  (pc \in {"done", "replied"} /\ request.kind # "none")
    => /\ BadEnvelope(request) => reply.code = -32600
       /\ (~BadEnvelope(request) /\ request.method \notin Methods)
            => reply.code = -32601
       /\ (~BadEnvelope(request) /\ request.method = "tools/call"
             /\ request.name \notin TOOLS) => reply.code = -32602
       /\ reply.code \in {0, -32600, -32601, -32602, -32603}
       /\ (~BadEnvelope(request) /\ request.method \in Methods
             /\ (request.method = "tools/call" => request.name \in TOOLS))
            => reply.code = 0

C19_EveryCallReturns ==
  /\ [](InCall => pc \in Awaiting \cup {"done"})
  /\ [](pc = "done" => result # NoResult)
  /\ (InCall ~> Returned)

\* a call returned after a 2xx answer whose body was not the documented one
C19_Witness ==
  /\ Returned /\ result # NoResult /\ Len(answers) > 0
  /\ answers[Len(answers)] \in {Malformed(shape) : shape \in BodyShapes}
  /\ path = "adapter_error"

\* C20: the event of a calendar request has a location exactly when the call
\* came with a non-empty location name, that location carries the name; it
\* has an address exactly when the call came with a non-empty name and a
\* non-empty address, and an address that came without a name is not sent
C20_LocationAttached ==
  \A i \in 1..Len(outbound) :
    outbound[i].kind = "calendar" =>
      LET location == outbound[i].event.location
          named == args.location_name.present /\ StrLen(args.location_name.v) > 0
          addressed == args.location_address.present
                       /\ StrLen(args.location_address.v) > 0
      IN /\ location.present <=> named
         /\ location.present => location.name = args.location_name.v
         /\ location.address.present <=> (named /\ addressed)
         /\ location.address.present => location.address.v = args.location_address.v

\* a calendar request went out for a call that came with an address and no
\* usable name
C20_Witness ==
  /\ tool = BLOCK /\ Len(outbound) = 1 /\ outbound[1].kind = "calendar"
  /\ args.location_address = Some(Str("laddr", 6))
  /\ args.location_name \in {NoStr, Some(<<>>)}
  /\ ~outbound[1].event.location.present

\* C21: for arguments that satisfy the schema (a start_time the pattern
\* accepts, a duration of 15..480 minutes), the event of the calendar request
\* has end_at exactly duration_minutes * 60 seconds after start_at, start_at
\* names the instant of start_time, neither timestamp has a fraction of a
\* second, and time_zone is the fixed zone of the service
C21_EndAfterStart ==
  \A i \in 1..Len(outbound) :
    (outbound[i].kind = "calendar" /\ BlockSessionInputSchema(args)) =>
      LET time == outbound[i].event.time
      IN /\ time.start_at.utc = args.start_time.t
         /\ time.end_at.utc = time.start_at.utc + args.duration_minutes.v * 60
         /\ ~time.start_at.fraction.present
         /\ ~time.end_at.fraction.present
         /\ time.time_zone = "Asia/Seoul"

\* an event went out for a start_time that carried an offset of its own and
\* the longest duration the schema admits
C21_Witness ==
  /\ tool = BLOCK /\ BlockSessionInputSchema(args)
  /\ Len(outbound) = 1 /\ outbound[1].kind = "calendar"
  /\ args.start_time.offset = "+09:00" /\ args.duration_minutes.v = 480

\* C22: the link of every message template, feed or text, is the location
\* URL of the call when the call came with a non-empty one and the fixed
\* fallback URL otherwise; a feed template has the view-map button exactly
\* when the call came with a location URL, and the button points at that URL
C22_TemplateLink ==
  \A i \in 1..Len(outbound) :
    outbound[i].kind = "message" =>
      LET template == outbound[i].template
          supplied == args.location_url.present
                      /\ StrLen(args.location_url.v) > 0
          target == IF supplied THEN args.location_url.v ELSE FALLBACK_URL
          link == IF template.object_type = "feed" THEN template.content.link
                  ELSE template.link
      IN /\ template.object_type \in {"feed", "text"}
         /\ link = [web_url |-> target, mobile_web_url |-> target]
         /\ template.object_type = "feed" =>
              /\ template.buttons.present <=> supplied
              /\ template.buttons.present =>
                   /\ Len(template.buttons.v) = 1
                   /\ template.buttons.v[1].link =
                        [web_url |-> args.location_url.v,
                         mobile_web_url |-> args.location_url.v]

\* a feed template went out for a call that came with a location URL
C22_Witness ==
  /\ tool = SEND /\ Len(outbound) = 1 /\ outbound[1].kind = "message"
  /\ outbound[1].template.object_type = "feed"
  /\ args.location_url.present /\ args.location_url.url
  /\ outbound[1].template.buttons.present
  /\ outbound[1].template.content.link.web_url = args.location_url.v

\* reading a rendered JSON text back: the string value that follows a key is
\* what stands between the two quotes after it
UpToQuote(text) ==
  IF \E j \in 1..Len(text) : text[j].c = "\""
  THEN LET close == CHOOSE j \in 1..Len(text) :
                      /\ text[j].c = "\""
                      /\ \A k \in 1..(j - 1) : text[k].c # "\""
       IN SubSeq(text, 1, close - 1)
  ELSE text
\* the places of the runs in at, in their order
InOrder(at) ==
  [k \in 1..Cardinality(at) |->
     CHOOSE i \in at : Cardinality({j \in at : j < i}) = k - 1]
StringsAt(text, key) ==
  LET at == {i \in 1..(Len(text) - 1) :
               text[i].c = "\"" \o key \o "\":" /\ text[i + 1].c = "\""}
      places == InOrder(at)
  IN [k \in 1..Len(places) |->
        UpToQuote(SubSeq(text, places[k] + 2, Len(text)))]
\* the numbers that follow a key, as their digits
NumbersAt(text, key) ==
  LET at == {i \in 1..(Len(text) - 1) : text[i].c = "\"" \o key \o "\":"}
      places == InOrder(at)
  IN [k \in 1..Len(places) |-> text[places[k] + 1].c]

\* C23: the JSON text of a successful search, read back, lists as many
\* places as the provider returned, in the provider's order, and the count
\* (total) it reports is that number
C23_JsonRoundTrip ==
  (/\ Returned /\ tool = SEARCH /\ path = "success"
   /\ input.response_format = Some("json"))
    => LET docs == LastAnswer.docs
           names == StringsAt(result.text, "name")
           counts == NumbersAt(result.text, "total")
                     \o NumbersAt(result.text, "count")
       IN /\ Len(names) = Len(docs)
          /\ \A i \in 1..Len(docs) : names[i] = docs[i].place_name
          /\ counts = <<ToString(Len(docs))>>

\* a JSON render of a search for which the provider returned two places
C23_Witness ==
  /\ Returned /\ tool = SEARCH /\ path = "success"
  /\ input.response_format = Some("json") /\ Len(LastAnswer.docs) = 2
  /\ StringsAt(result.text, "name")
       = <<LastAnswer.docs[1].place_name, LastAnswer.docs[2].place_name>>

\* the runs a text of the tool's formatter can open with when it renders a
\* failure: the failed heading of formatBlockSessionResult and of
\* formatSendCommitmentResult; formatSearchSpotResult has no failure branch,
\* its texts open with the markdown heading or the brace of the JSON
FormatterOpening(name) ==
  IF name = BLOCK THEN {"# event registration failed"}
  ELSE IF name = SEND THEN {"# commitment card failed"}
  ELSE {"# ", "{"}

\* C24: every failure text of a tool is a text of that tool's formatter: it
\* opens with the formatter's failed heading, and what follows the heading
\* and the empty line is the error message alone
C24_FailureThroughFormatter ==
  (Returned /\ tool \in TOOLS /\ path # "success")
    => /\ Len(result.text) > 0
       /\ result.text[1].c \in FormatterOpening(tool)
       /\ tool = BLOCK =>
            result.text = formatBlockSessionResult(
                            BlockFailure(SubSeq(result.text, 4, Len(result.text))))
       /\ tool = SEND =>
            result.text = formatSendCommitmentResult(
                            SendFailure(SubSeq(result.text, 4, Len(result.text))))

\* C25: a block-session or send-commitment call whose arguments violate the
\* schema, made while no bearer token is configured, reports the validation
\* failure and not the login-required failure, in every dispatcher variant
C25_ValidationBeforeCredential ==
  (InCall /\ tool \in {BLOCK, SEND} /\ ~ValidArgs(tool, args) /\ ~env.token)
    => /\ Returned
       /\ path = "validation"
       /\ \A i \in 1..Len(result.text) : result.text[i].c \notin LoginRequiredTags

\* C26: the confirmation text of a successful block-session call shows the
\* reminder that was submitted to the calendar provider, and shows no
\* reminder when the submitted event carries none
C26_ReminderShownIsSubmitted ==
  (Returned /\ tool = BLOCK /\ path = "success")
    => \A i \in 1..Len(outbound) :
         outbound[i].kind = "calendar"
           => LET reminders == outbound[i].event.reminders
              IN IF reminders.present
                 THEN Names(result.text, "**reminder**: ",
                            NumStr(reminders.v[1]) \o Str(" minutes before", 3))
                 ELSE ~HasTag(result.text, "**reminder**: ")

Advertised == TOOLS

\* C28: in the handlers of part_000 and part_001 a tools/call reaches
\* executeTool exactly for the names tools/list and the health endpoint
\* return: a name of that list is passed on and never ends in the
\* unknown-tool branch, any other name is answered with the error -32602 and
\* no executor runs
C28_AdvertisedIsCallable ==
  /\ \A name \in ToolNames :
       name \in Advertised <=> handler(ToolsCall(name)) = Execute
  /\ (/\ request.kind = "object" /\ request.jsonrpc = "2.0"
      /\ request.method = "tools/call" /\ request.name # "absent")
       => IF request.name \in Advertised
          THEN /\ InCall /\ tool = request.name
               /\ path # "unknown_tool"
               /\ Returned => reply = jsonRpcResponse
          ELSE /\ pc = "replied" /\ tool = "none"
               /\ reply = jsonRpcError(400, -32602)
               /\ result = NoResult /\ outbound = <<>>
  /\ (InCall /\ path = "unknown_tool") => request = NoRequest

\* the handler refused an unadvertised name
C28_Witness ==
  /\ pc = "replied" /\ variant = "inline"
  /\ request = ToolsCall("godsaeng_nap")
  /\ reply = jsonRpcError(400, -32602)

RECURSIVE SameRun(_, _, _)
SameRun(c, d, answered) ==
  IF c.pc # d.pc \/ c.path # d.path \/ c.outbound # d.outbound THEN FALSE
  ELSE IF answered = <<>> \/ c.pc = "done" THEN TRUE
  ELSE SameRun(Advance(c, Step(c, Head(answered))),
               Advance(d, Step(d, Head(answered))), Tail(answered))

\* C30: a call served by the schema-validating tool handlers and the same
\* call (tool, arguments, environment, encouragement pick, provider answers)
\* served by the inlined dispatcher of part_001 take the same return
\* (success or the same class of failure) and issue the same outbound
\* requests with the same payload
C30_SdkInlineEquivalent ==
  (InCall /\ variant = "sdk")
    => \E pick \in 1..7 :
         /\ Frame("sdk", tool, args, pick).enc = enc
         /\ SameRun(Advance(Frame("sdk", tool, args, pick),
                            Start("sdk", tool, args, env, pick)),
                    Advance(Frame("inline", tool, args, pick),
                            Start("inline", tool, args, env, pick)),
                    answers)

====
